---- MODULE Spec2Model ----
(***************************************************************************)
(* Model of the image catalogue: the Hamming comparator of perceptual      *)
(* hashes (model/image_util.py), the duplicate grouper and the similarity  *)
(* clusterer (model/database.py) and the gallery tree of GalleryService    *)
(* (model/gallery_service.py).                                             *)
(*                                                                         *)
(* A fingerprint string is a sequence of hex digits, each digit written    *)
(* as its value 0..15 (two characters are equal exactly when their values  *)
(* are).  Python's None is the value NoneVal, which is no string.          *)
(***************************************************************************)
EXTENDS Integers, Sequences, FiniteSets, TLC

VARIABLES
    metadata_list,  \* the rows session.query(Images_metadata).all() returns
    ret,            \* the last call: its name, its arguments and what it returned
    galleries,      \* the galleries table: galleries[id] is the row with that id
    gret,           \* the last GalleryService call and its outcome
    image_table,    \* the images table: image_table[id] is the row with that id
    file_present,   \* whether the file a path input names can be opened
    calls,          \* calculate_image_hashes: the state of each thread's call
    session,        \* the session of the running get_session block
    sret,           \* the last ImagesService call and what it returned
    soft_deleted,   \* the images whose soft_delete returned True and stands
    gallery_images, \* the gallery_images table, a row per association
    albums,         \* image_count and cover_image_id of each gallery
    caption_types,  \* the caption_types table: caption_types[id] is the name
    image_captions, \* the image_captions table
    loader,         \* the running load_image_caption_with_retry call
    default_dict    \* the default value of load_json_caption's caption_dict

vars == <<metadata_list, ret, galleries, gret, image_table, file_present, calls,
          session, sret, soft_deleted, gallery_images, albums, caption_types,
          image_captions, loader, default_dict>>

\* the variables of the sessions
session_vars == <<session, sret, soft_deleted>>

\* the variables of the gallery-image associations
assoc_vars == <<gallery_images, albums>>

\* the variables of the captions and of their loader
caption_vars == <<caption_types, image_captions, loader, default_dict>>

\* the variables of the image store, of the hashing calls, of the sessions,
\* of the associations and of the captions
rest_vars == <<image_table, file_present, calls, session_vars, assoc_vars, caption_vars>>

-----------------------------------------------------------------------------
(* Bounds of the model *)

MaxRecords == 3      \* rows in the metadata table
MaxThreshold == 2    \* thresholds 0..MaxThreshold
MaxHashLen == 2      \* fingerprints of length 0..MaxHashLen for the comparator
MaxDigit == 3        \* hex digits 0..MaxDigit for the comparator
MaxDupRecords == 4   \* rows in the metadata table, duplicate grouping
MaxGalleries == 3    \* galleries ever created

(* Program constants *)

PerceptualHashLen == 16   \* f"{hash_int:016x}"
DefaultThreshold == 5     \* find_similar_images(session, threshold=5)
Inf == -1                 \* float('inf'): the result for strings of different length

-----------------------------------------------------------------------------
(* Values *)

NoneVal == <<-1>>
EmptyStr == <<>>

\* Python's `not s` for an optional string: None and "" are falsy.
Falsy(s) == s = NoneVal \/ s = EmptyStr

\* the hex strings of length n over the digits of D
HexStrings(D, n) == [1..n -> D]

\* the perceptual hashes of the example: 15 zeros followed by the digit d
ZeroThen(d) == [k \in 1..PerceptualHashLen |-> IF k = PerceptualHashLen THEN d ELSE 0]
H0 == ZeroThen(0)
H1 == ZeroThen(1)
H2 == ZeroThen(3)

\* the number of bits in which two hex digits differ
RECURSIVE BitDiff(_, _)
BitDiff(x, y) ==
    IF x = 0 /\ y = 0 THEN 0
    ELSE (IF (x % 2) # (y % 2) THEN 1 ELSE 0) + BitDiff(x \div 2, y \div 2)

-----------------------------------------------------------------------------
(* calculate_hamming_distance, model/image_util.py *)

\* the loop `for i in range(len(hash1))` from position i on, distance so far d
RECURSIVE hamming_loop(_, _, _, _)
hamming_loop(hash1, hash2, i, distance) ==
    IF i > Len(hash1) THEN distance
    ELSE hamming_loop(hash1, hash2, i + 1,
                      IF hash1[i] # hash2[i] THEN distance + 1 ELSE distance)

\* a comparator that counts the differing bits of the unpacked hex value
RECURSIVE bit_loop(_, _, _, _)
bit_loop(hash1, hash2, i, distance) ==
    IF i > Len(hash1) THEN distance
    ELSE bit_loop(hash1, hash2, i + 1, distance + BitDiff(hash1[i], hash2[i]))

hamming_bits(hash1, hash2) ==
    IF Len(hash1) # Len(hash2) THEN Inf ELSE bit_loop(hash1, hash2, 1, 0)

\* a comparator that counts only the positions where hash1 holds the larger digit
RECURSIVE greater_loop(_, _, _, _)
greater_loop(hash1, hash2, i, distance) ==
    IF i > Len(hash1) THEN distance
    ELSE greater_loop(hash1, hash2, i + 1,
                      IF hash1[i] > hash2[i] THEN distance + 1 ELSE distance)

hamming_one_sided(hash1, hash2) ==
    IF Len(hash1) # Len(hash2) THEN Inf ELSE greater_loop(hash1, hash2, 1, 0)

\* a comparator that compares the common prefix of strings of different length
RECURSIVE prefix_loop(_, _, _, _)
prefix_loop(hash1, hash2, i, distance) ==
    IF i > Len(hash1) \/ i > Len(hash2) THEN distance
    ELSE prefix_loop(hash1, hash2, i + 1,
                     IF hash1[i] # hash2[i] THEN distance + 1 ELSE distance)

hamming_prefix(hash1, hash2) == prefix_loop(hash1, hash2, 1, 0)

calculate_hamming_distance(hash1, hash2) ==
    IF Len(hash1) # Len(hash2) THEN Inf ELSE hamming_loop(hash1, hash2, 1, 0)

\* Python's `hamming_distance <= threshold` for an int or float('inf') on the
\* left and a finite number on the right
within_threshold(hamming_distance, threshold) ==
    hamming_distance # Inf /\ hamming_distance <= threshold

-----------------------------------------------------------------------------
(* find_duplicate_images, model/database.py.  A row of the result names its *)
(* members by their position in metadata_list (the identity of the object). *)

\* the position of key in the insertion-ordered dict hash_groups, 0 if absent
key_index(hash_groups, key) ==
    IF \E k \in 1..Len(hash_groups) : hash_groups[k].image_hash = key
    THEN CHOOSE k \in 1..Len(hash_groups) : hash_groups[k].image_hash = key
    ELSE 0

\* the loop `for meta in metadata_list` from row i on
RECURSIVE bucket_loop(_, _, _)
bucket_loop(list, i, hash_groups) ==
    IF i > Len(list) THEN hash_groups
    ELSE LET key == list[i].image_hash
             k == key_index(hash_groups, key)
         IN bucket_loop(list, i + 1,
                IF k # 0
                THEN [hash_groups EXCEPT ![k].images = Append(@, i)]
                ELSE Append(hash_groups, [image_hash |-> key, images |-> <<i>>]))

\* the loop `for image_hash, metas in hash_groups.items()` from entry k on
RECURSIVE report_loop(_, _, _)
report_loop(hash_groups, k, duplicates) ==
    IF k > Len(hash_groups) THEN duplicates
    ELSE report_loop(hash_groups, k + 1,
            IF Len(hash_groups[k].images) > 1
            THEN Append(duplicates, [image_hash |-> hash_groups[k].image_hash,
                                     count |-> Len(hash_groups[k].images),
                                     images |-> hash_groups[k].images])
            ELSE duplicates)

\* a grouper that reports every bucket, the buckets of one row included
RECURSIVE report_all(_, _, _)
report_all(hash_groups, k, duplicates) ==
    IF k > Len(hash_groups) THEN duplicates
    ELSE report_all(hash_groups, k + 1,
            Append(duplicates, [image_hash |-> hash_groups[k].image_hash,
                                count |-> Len(hash_groups[k].images),
                                images |-> hash_groups[k].images]))

find_duplicate_images_all(list) == report_all(bucket_loop(list, 1, <<>>), 1, <<>>)

find_duplicate_images(list) == report_loop(bucket_loop(list, 1, <<>>), 1, <<>>)

-----------------------------------------------------------------------------
(* find_similar_images, model/database.py *)

\* the inner loop `for j, meta2 in enumerate(metadata_list[i+1:], i+1)` from j on
RECURSIVE scan_later(_, _, _, _, _)
scan_later(list, threshold, i, j, similar_images) ==
    IF j > Len(list) THEN similar_images
    ELSE scan_later(list, threshold, i, j + 1,
            IF Falsy(list[j].perceptual_hash) THEN similar_images
            ELSE IF within_threshold(
                        calculate_hamming_distance(list[i].perceptual_hash,
                                                   list[j].perceptual_hash),
                        threshold)
                 THEN Append(similar_images, j)
                 ELSE similar_images)

\* the outer loop `for i, meta1 in enumerate(metadata_list)` from i on
RECURSIVE anchor_loop(_, _, _, _)
anchor_loop(list, threshold, i, similar_groups) ==
    IF i > Len(list) THEN similar_groups
    ELSE IF Falsy(list[i].perceptual_hash)
         THEN anchor_loop(list, threshold, i + 1, similar_groups)
         ELSE LET similar_images == scan_later(list, threshold, i, i + 1, <<i>>)
              IN anchor_loop(list, threshold, i + 1,
                    IF Len(similar_images) > 1
                    THEN Append(similar_groups, [threshold |-> threshold,
                                                 count |-> Len(similar_images),
                                                 images |-> similar_images])
                    ELSE similar_groups)

\* the rows that are members of a group of similar_groups
grouped(similar_groups) ==
    UNION {{similar_groups[g].images[m] : m \in 1..Len(similar_groups[g].images)} :
           g \in 1..Len(similar_groups)}

\* a clusterer that marks the collected rows visited: a row that joined an
\* earlier group is not used as an anchor
RECURSIVE visited_loop(_, _, _, _)
visited_loop(list, threshold, i, similar_groups) ==
    IF i > Len(list) THEN similar_groups
    ELSE IF Falsy(list[i].perceptual_hash) \/ i \in grouped(similar_groups)
         THEN visited_loop(list, threshold, i + 1, similar_groups)
         ELSE LET similar_images == scan_later(list, threshold, i, i + 1, <<i>>)
              IN visited_loop(list, threshold, i + 1,
                    IF Len(similar_images) > 1
                    THEN Append(similar_groups, [threshold |-> threshold,
                                                 count |-> Len(similar_images),
                                                 images |-> similar_images])
                    ELSE similar_groups)

find_similar_images_visited(list, threshold) == visited_loop(list, threshold, 1, <<>>)

\* a clusterer that takes a row without a hash for the empty string instead of
\* skipping it
RECURSIVE noskip_scan(_, _, _, _, _)
noskip_scan(list, threshold, i, j, similar_images) ==
    IF j > Len(list) THEN similar_images
    ELSE LET h1 == IF Falsy(list[i].perceptual_hash) THEN EmptyStr
                   ELSE list[i].perceptual_hash
             h2 == IF Falsy(list[j].perceptual_hash) THEN EmptyStr
                   ELSE list[j].perceptual_hash
         IN noskip_scan(list, threshold, i, j + 1,
                IF within_threshold(calculate_hamming_distance(h1, h2), threshold)
                THEN Append(similar_images, j)
                ELSE similar_images)

RECURSIVE noskip_loop(_, _, _, _)
noskip_loop(list, threshold, i, similar_groups) ==
    IF i > Len(list) THEN similar_groups
    ELSE LET similar_images == noskip_scan(list, threshold, i, i + 1, <<i>>)
         IN noskip_loop(list, threshold, i + 1,
                IF Len(similar_images) > 1
                THEN Append(similar_groups, [threshold |-> threshold,
                                             count |-> Len(similar_images),
                                             images |-> similar_images])
                ELSE similar_groups)

find_similar_images_noskip(list, threshold) == noskip_loop(list, threshold, 1, <<>>)

\* a clusterer whose member scan starts at the first row instead of row i+1
RECURSIVE fullscan_loop(_, _, _, _)
fullscan_loop(list, threshold, i, similar_groups) ==
    IF i > Len(list) THEN similar_groups
    ELSE IF Falsy(list[i].perceptual_hash)
         THEN fullscan_loop(list, threshold, i + 1, similar_groups)
         ELSE LET similar_images == scan_later(list, threshold, i, 1, <<>>)
              IN fullscan_loop(list, threshold, i + 1,
                    IF Len(similar_images) > 1
                    THEN Append(similar_groups, [threshold |-> threshold,
                                                 count |-> Len(similar_images),
                                                 images |-> similar_images])
                    ELSE similar_groups)

find_similar_images_fullscan(list, threshold) == fullscan_loop(list, threshold, 1, <<>>)

find_similar_images(list, threshold) == anchor_loop(list, threshold, 1, <<>>)

\* the calls find_similar_images makes of calculate_hamming_distance: <<i, j, d>>
\* for every anchor row i and later row j that both carry a perceptual hash
computed_distances(list) ==
    {<<i, j, calculate_hamming_distance(list[i].perceptual_hash, list[j].perceptual_hash)>> :
        <<i, j>> \in {p \in (1..Len(list)) \X (1..Len(list)) :
                        /\ p[1] < p[2]
                        /\ ~Falsy(list[p[1]].perceptual_hash)
                        /\ ~Falsy(list[p[2]].perceptual_hash)}}

-----------------------------------------------------------------------------
(* The inputs of the grouping functions: the rows of the metadata table.    *)
(* The functions read whatever rows the query returns; they do not rely on  *)
(* the NOT NULL and UNIQUE declarations of Images_metadata.image_hash.      *)

ContentHashLen == 64      \* String(64), hashlib.sha256(...).hexdigest()

HashOf(d) == [k \in 1..ContentHashLen |-> d]
HashA == HashOf(10)       \* "a" * 64
HashB == HashOf(11)       \* "b" * 64

ContentInputs == {HashA, HashB, NoneVal}

GroupDigits == {0, 3}
GroupFingerprints == UNION {HexStrings(GroupDigits, n) : n \in 1..MaxHashLen}
PerceptualInputs == GroupFingerprints \cup {NoneVal, EmptyStr}

Thresholds == 0..MaxThreshold

\* rows with distinct content hashes and the perceptual hashes ps
SimilarRows(ps) ==
    [i \in 1..Len(ps) |-> [image_hash |-> HashOf(i), perceptual_hash |-> ps[i]]]

\* rows with the content hashes cs and no perceptual hash
DuplicateRows(cs) ==
    [i \in 1..Len(cs) |-> [image_hash |-> cs[i], perceptual_hash |-> NoneVal]]

ExampleRows == SimilarRows(<<H0, H1, H2>>)

NoCall == [op |-> "none"]

\* no image stored, no hashing call under way
NoServiceCall == [op |-> "none"]

NoSession == [pc |-> "none", dirty |-> {}, exc |-> "none", body |-> "none",
              log |-> <<>>]

\* no session opened
SessionIdle ==
    /\ session = NoSession
    /\ sret = NoServiceCall
    /\ soft_deleted = {}

\* no association stored
AssocIdle ==
    /\ gallery_images = <<>>
    /\ albums = <<>>

NoLoader == [pc |-> "none"]

\* no caption stored, no loader running
CaptionIdle ==
    /\ caption_types = <<>>
    /\ image_captions = <<>>
    /\ loader = NoLoader
    /\ default_dict = <<>>

RestIdle ==
    /\ image_table = <<>>
    /\ file_present = TRUE
    /\ calls = <<>>
    /\ SessionIdle
    /\ AssocIdle
    /\ CaptionIdle

InitRows ==
    \/ \E n \in 0..MaxRecords : \E ps \in [1..n -> PerceptualInputs] :
          metadata_list = SimilarRows(ps)
    \/ \E n \in 0..MaxDupRecords : \E cs \in [1..n -> ContentInputs] :
          metadata_list = DuplicateRows(cs)
    \/ metadata_list = ExampleRows

NoGalleries == <<>>

Init ==
    /\ InitRows
    /\ ret = NoCall
    /\ galleries = NoGalleries
    /\ gret = NoCall
    /\ RestIdle

FindSimilarImages ==
    /\ ret = NoCall
    /\ \E threshold \in Thresholds \cup {DefaultThreshold} :
          ret' = [op |-> "find_similar_images", threshold |-> threshold,
                  distances |-> computed_distances(metadata_list),
                  value |-> find_similar_images(metadata_list, threshold)]
    /\ UNCHANGED <<metadata_list, galleries, gret, rest_vars>>

FindDuplicateImages ==
    /\ ret = NoCall
    /\ ret' = [op |-> "find_duplicate_images",
               value |-> find_duplicate_images(metadata_list)]
    /\ UNCHANGED <<metadata_list, galleries, gret, rest_vars>>

Next == FindSimilarImages \/ FindDuplicateImages

Spec == Init /\ [][Next]_vars

-----------------------------------------------------------------------------
(* The comparator on its own: calculate_hamming_distance(hash1, hash2) for  *)
(* strings of every length up to MaxHashLen and the hashes of the example.  *)

FingerprintInputs ==
    UNION {HexStrings(0..MaxDigit, n) : n \in 0..MaxHashLen} \cup {H0, H1, H2}

InitHamming ==
    /\ metadata_list = <<>>
    /\ \E hash1 \in FingerprintInputs : \E hash2 \in FingerprintInputs :
          ret = [op |-> "call", hash1 |-> hash1, hash2 |-> hash2]
    /\ galleries = NoGalleries
    /\ gret = NoCall
    /\ RestIdle

HammingDistance ==
    /\ ret.op = "call"
    /\ ret' = [op |-> "calculate_hamming_distance",
               hash1 |-> ret.hash1, hash2 |-> ret.hash2,
               value |-> calculate_hamming_distance(ret.hash1, ret.hash2)]
    /\ UNCHANGED <<metadata_list, galleries, gret, rest_vars>>

NextHamming == HammingDistance

SpecHamming == InitHamming /\ [][NextHamming]_vars

-----------------------------------------------------------------------------
(* GalleryService, model/gallery_service.py.  galleries[id] is the row of   *)
(* the gallery with that id; parent_id 0 is None.  A service call runs in a *)
(* session of session_manager.get_session(): SessionLocal does not          *)
(* autoflush, so a query sees the rows as the last flush left them.  The    *)
(* engine of model/base.py opens its SQLite connections with                *)
(* isolation_level None: a statement a flush sends is durable at once, and  *)
(* the rollback after an exception discards only what was not flushed.      *)
(* SQLite does not enforce the foreign key of parent_id.  The name of a     *)
(* gallery is its id, and a path is the sequence of the names it joins.     *)

NoParent == 0

\* GalleryService.get_gallery_by_id: the id of the live row, 0 for None
get_gallery_by_id(gs, gallery_id) ==
    IF gallery_id \in 1..Len(gs) /\ ~gs[gallery_id].deleted THEN gallery_id ELSE 0

\* Gallery.parent: the row parent_id refers to, deleted or not, 0 for None
parent(gs, gallery_id) ==
    IF gs[gallery_id].parent_id \in 1..Len(gs) THEN gs[gallery_id].parent_id ELSE 0

\* Gallery.children: the rows whose parent_id is gallery_id, deleted or not
children(gs, gallery_id) == {c \in 1..Len(gs) : gs[c].parent_id = gallery_id}

\* GalleryService.get_galleries_by_parent: the live rows under parent_id
get_galleries_by_parent(gs, parent_id) ==
    {c \in 1..Len(gs) : gs[c].parent_id = parent_id /\ ~gs[c].deleted}

\* the loop of _is_descendant from `current` on; it ends after at most Len(gs)
\* steps or walks round a cycle for ever ("hang")
RECURSIVE is_descendant_loop(_, _, _, _)
is_descendant_loop(gs, ancestor, current, steps) ==
    IF current = 0 THEN "False"
    ELSE IF current = ancestor THEN "True"
    ELSE IF steps > Len(gs) THEN "hang"
    ELSE is_descendant_loop(gs, ancestor, parent(gs, current), steps + 1)

\* the walk of a check that starts at the new parent and looks for the gallery
is_descendant_swapped(gs, ancestor, descendant) ==
    IF ancestor = descendant THEN "True"
    ELSE is_descendant_loop(gs, descendant, parent(gs, ancestor), 1)

\* GalleryService._is_descendant(ancestor, descendant)
is_descendant(gs, ancestor, descendant) ==
    is_descendant_loop(gs, ancestor, parent(gs, descendant), 1)

\* the rows a recursion reaches from the rows of `front`, where step[x] are
\* the rows the recursion visits from row x
RECURSIVE reach(_, _, _)
reach(step, front, seen) ==
    LET next == UNION {step[x] : x \in front}
    IN IF next \subseteq seen THEN seen
       ELSE reach(step, next \ seen, seen \cup next)

\* a recursion that starts at gallery_id never ends (Python raises
\* RecursionError): it reaches a row that reaches itself
recursion_error(step, gallery_id) ==
    \E x \in {gallery_id} \cup reach(step, {gallery_id}, {}) :
        x \in reach(step, {x}, {})

\* GalleryService._update_gallery_path: writes path and level only; TRUE when
\* its recursion over Gallery.children does not end
update_gallery_path_fails(gs, gallery_id) ==
    recursion_error([x \in 1..Len(gs) |-> children(gs, x)], gallery_id)

\* GalleryService._get_all_descendant_ids: TRUE when its recursion over
\* get_galleries_by_parent does not end
get_all_descendant_ids_fails(gs, gallery_id) ==
    recursion_error([x \in 1..Len(gs) |-> get_galleries_by_parent(gs, x)], gallery_id)

\* GalleryService._update_parent_counts: writes counts only; TRUE when it raises
update_parent_counts_fails(gs, parent_id) ==
    get_gallery_by_id(gs, parent_id) # 0 /\ get_all_descendant_ids_fails(gs, parent_id)

\* the relationship Gallery.parent as _update_gallery_path reads it for the
\* moved gallery.  When the cycle test of move_gallery ran, it loaded
\* gallery.parent from the parent_id of that moment, and the assignment to
\* parent_id does not reload it; otherwise it is loaded now, from the new
\* parent_id, deleted or not
moved_parent(gs, gallery, new_parent_id) ==
    IF new_parent_id # NoParent /\ get_gallery_by_id(gs, new_parent_id) # 0
    THEN parent(gs, gallery)
    ELSE IF new_parent_id \in 1..Len(gs) THEN new_parent_id ELSE 0

\* the recursion of _update_gallery_path below the rows of front, whose path
\* and level are set in rows: a child takes them from its parent; db holds
\* the rows the lazy load of Gallery.children reads
RECURSIVE update_children_path(_, _, _)
update_children_path(db, rows, front) ==
    LET kids == UNION {children(db, x) : x \in front}
    IN IF kids = {} THEN rows
       ELSE update_children_path(db,
                [x \in 1..Len(rows) |->
                    IF x \in kids
                    THEN [rows[x] EXCEPT
                             !.path = Append(rows[db[x].parent_id].path, x),
                             !.level = rows[db[x].parent_id].level + 1]
                    ELSE rows[x]],
                kids)

\* GalleryService._update_gallery_path(gallery), gallery.parent being row p
update_gallery_path(db, rows, gallery, p) ==
    update_children_path(db,
        [rows EXCEPT ![gallery].path = IF p # 0 THEN Append(rows[p].path, gallery)
                                       ELSE <<gallery>>,
                     ![gallery].level = IF p # 0 THEN rows[p].level + 1 ELSE 0],
        {gallery})

\* the row create_gallery adds
new_gallery(gs, parent_id) ==
    LET gallery_id == Len(gs) + 1
        p == IF parent_id # NoParent THEN get_gallery_by_id(gs, parent_id) ELSE 0
    IN [parent_id |-> parent_id, deleted |-> FALSE,
        level |-> IF p # 0 THEN gs[p].level + 1 ELSE 0,
        path |-> IF p # 0 THEN Append(gs[p].path, gallery_id) ELSE <<gallery_id>>]

\* GalleryService.create_gallery(name, parent_id=parent_id): <<result, table>>
create_gallery(gs, parent_id) ==
    LET flushed == Append(gs, new_gallery(gs, parent_id))
    IN IF parent_id # NoParent /\ update_parent_counts_fails(flushed, parent_id)
       THEN <<"raise", flushed>>
       ELSE <<"created", flushed>>

\* GalleryService.move_gallery(gallery_id, new_parent_id): <<result, table>>
move_gallery(gs, gallery_id, new_parent_id) ==
    LET gallery == get_gallery_by_id(gs, gallery_id)
        new_parent == get_gallery_by_id(gs, new_parent_id)
        check == IF new_parent_id # NoParent /\ new_parent # 0
                 THEN is_descendant(gs, new_parent, gallery)
                 ELSE "False"
        old_parent_id == gs[gallery].parent_id
    IN IF gallery = 0 THEN <<"False", gs>>
       ELSE IF check = "hang" THEN <<"hang", gs>>
       ELSE IF check = "True" THEN <<"raise", gs>>
       ELSE IF update_gallery_path_fails(gs, gallery) THEN <<"raise", gs>>
       ELSE IF old_parent_id # NoParent /\ update_parent_counts_fails(gs, old_parent_id)
            THEN <<"raise", gs>>
       ELSE IF new_parent_id # NoParent /\ update_parent_counts_fails(gs, new_parent_id)
            THEN <<"raise", gs>>
       ELSE <<"True", update_gallery_path(gs,
                          [gs EXCEPT ![gallery].parent_id = new_parent_id],
                          gallery, moved_parent(gs, gallery, new_parent_id))>>

\* _soft_delete_children: the rows it marks, and TRUE when its recursion over
\* get_galleries_by_parent does not end
soft_delete_children(gs, gallery_id) ==
    reach([x \in 1..Len(gs) |-> get_galleries_by_parent(gs, x)], {gallery_id}, {})

soft_delete_children_fails(gs, gallery_id) ==
    recursion_error([x \in 1..Len(gs) |-> get_galleries_by_parent(gs, x)], gallery_id)

\* GalleryService.delete_gallery(gallery_id), hard_delete False: <<result, table>>
delete_gallery(gs, gallery_id) ==
    LET gallery == get_gallery_by_id(gs, gallery_id)
        marked == {gallery} \cup soft_delete_children(gs, gallery)
    IN IF gallery = 0 THEN <<"False", gs>>
       ELSE IF soft_delete_children_fails(gs, gallery) THEN <<"raise", gs>>
       ELSE IF gs[gallery].parent_id # NoParent
               /\ update_parent_counts_fails(gs, gs[gallery].parent_id)
            THEN <<"raise", gs>>
       ELSE <<"True", [x \in 1..Len(gs) |->
                          IF x \in marked THEN [gs[x] EXCEPT !.deleted = TRUE]
                          ELSE gs[x]]>>

InitGallery ==
    /\ metadata_list = <<>>
    /\ ret = NoCall
    /\ galleries = NoGalleries
    /\ gret = NoCall
    /\ RestIdle

CreateGallery ==
    /\ Len(galleries) < MaxGalleries
    /\ \E parent_id \in 0..MaxGalleries :
          LET r == create_gallery(galleries, parent_id)
          IN /\ galleries' = r[2]
             /\ gret' = [op |-> "create_gallery", gallery_id |-> Len(galleries) + 1,
                         parent_id |-> parent_id, result |-> r[1]]
    /\ UNCHANGED <<metadata_list, ret, rest_vars>>

MoveGallery ==
    /\ \E gallery_id \in 1..MaxGalleries : \E new_parent_id \in 0..MaxGalleries :
          LET r == move_gallery(galleries, gallery_id, new_parent_id)
          IN /\ r[1] # "hang"
             /\ galleries' = r[2]
             /\ gret' = [op |-> "move_gallery", gallery_id |-> gallery_id,
                         parent_id |-> new_parent_id, result |-> r[1]]
    /\ UNCHANGED <<metadata_list, ret, rest_vars>>

NextGallery == CreateGallery \/ MoveGallery

SpecGallery == InitGallery /\ [][NextGallery]_vars

DeleteGallery ==
    /\ \E gallery_id \in 1..MaxGalleries :
          LET r == delete_gallery(galleries, gallery_id)
          IN /\ galleries' = r[2]
             /\ gret' = [op |-> "delete_gallery", gallery_id |-> gallery_id,
                         result |-> r[1]]
    /\ UNCHANGED <<metadata_list, ret, rest_vars>>

NextGalleryTree == CreateGallery \/ MoveGallery \/ DeleteGallery

SpecGalleryTree == InitGallery /\ [][NextGalleryTree]_vars

-----------------------------------------------------------------------------
(* calculate_image_perceptual_hash, model/image_util.py, from the pixels of *)
(* the 8x8 grayscale image on.  Python's int is unbounded: an int is        *)
(* modelled by its base-16 digits, least significant first, without leading *)
(* zeros.                                                                   *)

NumPixels == 64           \* target_size=(8, 8)
MaxPixel == 255           \* mode 'L': one byte per pixel

\* sum(pixels)
RECURSIVE sum_pixels(_, _)
sum_pixels(pixels, k) ==
    IF k > Len(pixels) THEN 0 ELSE pixels[k] + sum_pixels(pixels, k + 1)

\* `pixel > avg_pixel` with avg_pixel = total / count; the quotient is exact in
\* a float, so the test is pixel * count > total
above_average(pixel, total, count) == pixel * count > total

\* the loop `for pixel in pixels`: hash_bits, one bit per pixel in scan order
hash_bits(pixels) ==
    LET total == sum_pixels(pixels, 1)
    IN [k \in 1..Len(pixels) |->
           IF above_average(pixels[k], total, Len(pixels)) THEN 1 ELSE 0]

\* 2 * n + bit for an int n
RECURSIVE shift_in(_, _)
shift_in(n, bit) ==
    IF n = <<>> THEN (IF bit = 0 THEN <<>> ELSE <<bit>>)
    ELSE <<(2 * Head(n) + bit) % 16>> \o shift_in(Tail(n), (2 * Head(n) + bit) \div 16)

\* int(hash_string, 2) from the k-th character on, the value so far n
RECURSIVE int_base2(_, _, _)
int_base2(bits, k, n) ==
    IF k > Len(bits) THEN n
    ELSE LET next == shift_in(n, bits[k])
         IN IF Len(next) >= 0 THEN int_base2(bits, k + 1, next) ELSE next

\* f"{hash_int:016x}": the hex digits of n, most significant first, padded with
\* zeros on the left to PerceptualHashLen characters
format_016x(n) ==
    LET width == IF Len(n) > PerceptualHashLen THEN Len(n) ELSE PerceptualHashLen
    IN [k \in 1..width |-> IF k <= width - Len(n) THEN 0 ELSE n[width - k + 1]]

\* the hash formatted with "x" in place of "016x": no zero padding
perceptual_hash_unpadded(pixels) ==
    LET n == int_base2(hash_bits(pixels), 1, <<>>)
    IN [k \in 1..Len(n) |-> n[Len(n) - k + 1]]

\* calculate_image_perceptual_hash for an image whose 8x8 grayscale form is pixels
perceptual_hash_of(pixels) == format_016x(int_base2(hash_bits(pixels), 1, <<>>))

(* The pixel grids examined: the first and the last MaxVaried pixels        *)
(* vary over PixelLevels, the pixels between them hold one value.           *)

MaxVaried == 2
PixelLevels == {0, 100, MaxPixel}

PixelGrid(head, fill, tail) ==
    [k \in 1..NumPixels |->
        IF k <= MaxVaried THEN head[k]
        ELSE IF k > NumPixels - MaxVaried THEN tail[k - (NumPixels - MaxVaried)]
        ELSE fill]

PixelInputs ==
    {PixelGrid(head, fill, tail) :
        head \in [1..MaxVaried -> PixelLevels], fill \in PixelLevels,
        tail \in [1..MaxVaried -> PixelLevels]}

InitPerceptual ==
    /\ metadata_list = <<>>
    /\ \E pixels \in PixelInputs : ret = [op |-> "call", pixels |-> pixels]
    /\ galleries = NoGalleries
    /\ gret = NoCall
    /\ RestIdle

PerceptualHash ==
    /\ ret.op = "call"
    /\ ret' = [op |-> "calculate_image_perceptual_hash", pixels |-> ret.pixels,
               value |-> perceptual_hash_of(ret.pixels)]
    /\ UNCHANGED <<metadata_list, galleries, gret, rest_vars>>

NextPerceptual == PerceptualHash

SpecPerceptual == InitPerceptual /\ [][NextPerceptual]_vars

-----------------------------------------------------------------------------
(* calculate_image_hash, calculate_image_perceptual_hash and                *)
(* calculate_image_hashes, model/image_util.py, on whole inputs.  An image  *)
(* is its decoded pixel grid, a number of 1..MaxGrids, and its info         *)
(* dictionary, with or without an ICC profile.  PIL's convert and resize    *)
(* copy info to the image they return, and the PNG writer stores the        *)
(* profile of info in an iCCP chunk.  SHA-256 is taken to be free of        *)
(* collisions: different byte strings have different digests.               *)

MaxGrids == 2
MaxCalls == 2

Grids == 1..MaxGrids
Infos == {"plain", "icc"}

DecodedImages == [grid : Grids, info : Infos]
Corrupt == [grid |-> 0, info |-> "corrupt"]     \* data no decoder accepts
Raised == [grid |-> -1, info |-> "raise"]       \* an exception left the call

\* the inputs: a path, a PIL image, bytes, a BytesIO stream, anything else
ImageInputs ==
    [kind : {"str", "bytes", "BytesIO"}, content : DecodedImages \cup {Corrupt}]
    \cup [kind : {"Image"}, content : DecodedImages]
    \cup [kind : {"other"}, content : {Corrupt}]

\* Image.open on data read from its start
image_open(content) == IF content = Corrupt THEN Raised ELSE content

\* Image.open on a stream that is read from where it stands
image_open_at(content, pos) == IF pos = "end" THEN Raised ELSE image_open(content)

\* _load_image_from_input as if Image.open did not seek to the start first
load_image_noseek(image_input, present, pos) ==
    IF image_input.kind = "str"
    THEN (IF present THEN image_open(image_input.content) ELSE Raised)
    ELSE IF image_input.kind = "Image" THEN image_input.content
    ELSE IF image_input.kind = "bytes" THEN image_open(image_input.content)
    ELSE IF image_input.kind = "BytesIO" THEN image_open_at(image_input.content, pos)
    ELSE Raised

\* _load_image_from_input; Image.open seeks to the start of a stream
load_image(image_input, present, pos) ==
    IF image_input.kind = "str"
    THEN (IF present THEN image_open(image_input.content) ELSE Raised)
    ELSE IF image_input.kind = "Image" THEN image_input.content
    ELSE IF image_input.kind = "bytes" THEN image_open(image_input.content)
    ELSE IF image_input.kind = "BytesIO" THEN image_open_at(image_input.content, "start")
    ELSE Raised

\* _prepare_image_for_hash: the grid converted and resized, info kept
prepare_image_for_hash(img, target_size, mode) ==
    [grid |-> img.grid, size |-> target_size, mode |-> mode, info |-> img.info]

\* img_processed.save(img_bytes, format='PNG'): the pixels and the chunks
png_save(img) ==
    [pixels |-> <<img.grid, img.size, img.mode>>,
     iCCP |-> img.info = "icc"]

\* hashlib.sha256(img_data).hexdigest(): a digest of 64 characters, one per
\* byte string
sha256_hexdigest(img_data) ==
    HashOf(2 * (img_data.pixels[1] - 1) + (IF img_data.iCCP THEN 1 ELSE 0))

\* list(img_processed.getdata()) of the 8x8 grayscale image of a grid
getdata(img) ==
    [k \in 1..NumPixels |-> IF k % (img.grid + 1) = 0 THEN MaxPixel ELSE 0]

\* the hash of lines 93-104 for the 8x8 grayscale image of each grid, computed
\* once
hash_of_pixels ==
    [g \in Grids |-> perceptual_hash_of(getdata([grid |-> g]))]

calculate_image_hash(image_input, present, pos) ==
    LET img == load_image(image_input, present, pos)
    IN IF img = Raised THEN NoneVal
       ELSE sha256_hexdigest(png_save(prepare_image_for_hash(img, 64, "RGB")))

calculate_image_perceptual_hash(image_input, present, pos) ==
    LET img == load_image(image_input, present, pos)
    IN IF img = Raised THEN NoneVal
       ELSE hash_of_pixels[prepare_image_for_hash(img, 8, "L").grid]

\* the dictionary calculate_image_hashes returns
hashes_result(image_hash, perceptual_hash) ==
    [image_hash |-> image_hash,
     perceptual_hash |-> perceptual_hash,
     success |-> image_hash # NoneVal /\ perceptual_hash # NoneVal]

\* where a stream stands after Image.open and the decoding read it
stream_after(image_input, pos) ==
    IF image_input.kind = "BytesIO" THEN "end" ELSE pos

(* Each thread calls calculate_image_hashes on an input of its own, at most *)
(* MaxCalls times; the two hash computations of a call are separate steps,  *)
(* and the file of the path inputs may be removed between any two.  A call  *)
(* on a path records whether it found the file at each of its two opens.    *)

Threads == {"t1", "t2"}

\* what a call has seen of the file system: only a path input is opened
file_seen(image_input, seen, present) ==
    IF image_input.kind = "str" THEN Append(seen, present) ELSE seen

NewCall(image_input) ==
    [input |-> image_input, pos |-> "start", pc |-> "start",
     image_hash |-> NoneVal, seen |-> <<>>, results |-> <<>>]

InitHashes ==
    /\ metadata_list = <<>>
    /\ ret = NoCall
    /\ galleries = NoGalleries
    /\ gret = NoCall
    /\ image_table = <<>>
    /\ file_present = TRUE
    /\ SessionIdle
    /\ AssocIdle
    /\ CaptionIdle
    /\ \E inputs \in [Threads -> ImageInputs] :
          calls = [t \in Threads |-> NewCall(inputs[t])]

\* image_hash = calculate_image_hash(image_input)
ImageHashStep(t) ==
    /\ calls[t].pc = "start"
    /\ calls' = [calls EXCEPT
          ![t].image_hash = calculate_image_hash(calls[t].input, file_present, calls[t].pos),
          ![t].pos = stream_after(calls[t].input, calls[t].pos),
          ![t].seen = file_seen(calls[t].input, <<>>, file_present),
          ![t].pc = "hashed"]
    /\ UNCHANGED <<metadata_list, ret, galleries, gret, image_table, file_present,
                   session_vars, assoc_vars,
                   caption_vars>>

\* perceptual_hash = calculate_image_perceptual_hash(image_input); return {...}
PerceptualHashStep(t) ==
    /\ calls[t].pc = "hashed"
    /\ LET perceptual_hash ==
               calculate_image_perceptual_hash(calls[t].input, file_present, calls[t].pos)
       IN calls' = [calls EXCEPT
             ![t].pos = stream_after(calls[t].input, calls[t].pos),
             ![t].results = Append(@, [seen |-> file_seen(calls[t].input, calls[t].seen,
                                                          file_present),
                                       value |-> hashes_result(calls[t].image_hash,
                                                               perceptual_hash)]),
             ![t].pc = "done"]
    /\ UNCHANGED <<metadata_list, ret, galleries, gret, image_table, file_present,
                   session_vars, assoc_vars,
                   caption_vars>>

\* the thread calls calculate_image_hashes again, with the same input object
CallAgain(t) ==
    /\ calls[t].pc = "done"
    /\ Len(calls[t].results) < MaxCalls
    /\ calls' = [calls EXCEPT ![t].pc = "start", ![t].image_hash = NoneVal,
                              ![t].seen = <<>>]
    /\ UNCHANGED <<metadata_list, ret, galleries, gret, image_table, file_present,
                   session_vars, assoc_vars,
                   caption_vars>>

\* the file system: the file of the path inputs is removed
FileRemoved ==
    /\ file_present
    /\ \E t \in Threads : calls[t].input.kind = "str"
    /\ file_present' = FALSE
    /\ UNCHANGED <<metadata_list, ret, galleries, gret, image_table, calls, session_vars, assoc_vars,
                   caption_vars>>

NextHashes ==
    \/ \E t \in Threads : ImageHashStep(t)
    \/ \E t \in Threads : PerceptualHashStep(t)
    \/ \E t \in Threads : CallAgain(t)
    \/ FileRemoved

SpecHashes == InitHashes /\ [][NextHashes]_vars

-----------------------------------------------------------------------------
(* create_image_with_metadata, model/database.py.  The engine of            *)
(* model/base.py connects to sqlite with isolation_level None: the driver   *)
(* opens no transaction, every statement a flush sends is stored at once,   *)
(* and session.rollback() only discards what was not flushed yet.  A        *)
(* metadata row keeps the columns the constraints and the searches read:    *)
(* image_id (unique), image_hash (not null, unique) and perceptual_hash.    *)

MaxImages == 3

\* the INSERT of a metadata row violates a constraint of images_metadata
integrity_error(table, row) ==
    \/ row.image_hash = NoneVal
    \/ \E k \in 1..Len(table) : table[k].image_hash = row.image_hash
    \/ \E k \in 1..Len(table) : table[k].image_id = row.image_id

\* create_image_with_metadata: session.add(image); session.flush(); the hashes;
\* session.add(metadata); session.commit(), or session.rollback() and raise
create_image_with_metadata(imgs, metas, image_input, present1, present2) ==
    LET flushed == Append(imgs, [deleted |-> FALSE])
        image_id == Len(flushed)
        image_hash == calculate_image_hash(image_input, present1, "start")
        perceptual_hash ==
            calculate_image_perceptual_hash(image_input, present2,
                                            stream_after(image_input, "start"))
        hash_result == hashes_result(image_hash, perceptual_hash)
        metadata == [image_id |-> image_id,
                     image_hash |-> hash_result.image_hash,
                     perceptual_hash |-> hash_result.perceptual_hash]
    IN IF integrity_error(metas, metadata)
       THEN [result |-> "raise", image_table |-> flushed, metadata_list |-> metas,
             image_id |-> image_id, hash_result |-> hash_result]
       ELSE [result |-> "returned", image_table |-> flushed,
             metadata_list |-> Append(metas, metadata),
             image_id |-> image_id, hash_result |-> hash_result]

InitStore ==
    /\ metadata_list = <<>>
    /\ ret = NoCall
    /\ galleries = NoGalleries
    /\ gret = NoCall
    /\ RestIdle

\* one call; present1 and present2 say whether the file of a path input could
\* be opened by the first and by the second hash computation
CreateImageWithMetadata ==
    /\ Len(image_table) < MaxImages
    /\ \E image_input \in ImageInputs : \E present1 \in BOOLEAN : \E present2 \in BOOLEAN :
          LET out == create_image_with_metadata(image_table, metadata_list,
                                                image_input, present1, present2)
          IN /\ image_table' = out.image_table
             /\ metadata_list' = out.metadata_list
             /\ file_present' = present2
             /\ ret' = [op |-> "create_image_with_metadata",
                        image_input |-> image_input,
                        image_id |-> out.image_id,
                        hash_result |-> out.hash_result,
                        result |-> out.result]
    /\ UNCHANGED <<galleries, gret, calls, session_vars, assoc_vars,
                   caption_vars>>

NextStore == CreateImageWithMetadata

SpecStore == InitStore /\ [][NextStore]_vars

-----------------------------------------------------------------------------
(* get_file_info and detect_mime_type_by_content, model/image_util.py.  A   *)
(* file is the sequence of its bytes; mimetypes.guess_type is the standard  *)
(* library's and enters as its answer for the path, a mime type or None.    *)

NoneStr == "None"         \* Python's None where the other values are strings
NoSize == -1              \* Python's None where the other values are sizes
HeaderLen == 32           \* f.read(32)
RiffWindow == 12          \* header[:12]

JPEG == <<255, 216, 255>>
PNG == <<137, 80, 78, 71, 13, 10, 26, 10>>
GIF87a == <<71, 73, 70, 56, 55, 97>>
GIF89a == <<71, 73, 70, 56, 57, 97>>
RIFF == <<82, 73, 70, 70>>
WEBP == <<87, 69, 66, 80>>
BM == <<66, 77>>
ICO == <<0, 0, 1, 0>>

\* f.read(n) on a file opened at its start
read(content, n) == SubSeq(content, 1, IF Len(content) < n THEN Len(content) ELSE n)

\* header.startswith(prefix)
startswith(header, prefix) ==
    /\ Len(prefix) <= Len(header)
    /\ SubSeq(header, 1, Len(prefix)) = prefix

\* sub in data
contains(data, sub) ==
    \E k \in 0..(Len(data) - Len(sub)) : SubSeq(data, k + 1, k + Len(sub)) = sub

\* the table with WEBP looked for in the whole header
detect_mime_type_whole_header(content, open_ok) ==
    IF ~open_ok THEN NoneStr
    ELSE LET header == read(content, HeaderLen)
         IN IF startswith(header, JPEG) THEN "image/jpeg"
            ELSE IF startswith(header, PNG) THEN "image/png"
            ELSE IF startswith(header, GIF87a) \/ startswith(header, GIF89a)
                 THEN "image/gif"
            ELSE IF startswith(header, RIFF) /\ contains(header, WEBP)
                 THEN "image/webp"
            ELSE IF startswith(header, BM) THEN "image/bmp"
            ELSE IF startswith(header, ICO) THEN "image/x-icon"
            ELSE "application/octet-stream"

\* detect_mime_type_by_content; open_ok: open and read raise nothing
detect_mime_type_by_content(content, open_ok) ==
    IF ~open_ok THEN NoneStr
    ELSE LET header == read(content, HeaderLen)
         IN IF startswith(header, JPEG) THEN "image/jpeg"
            ELSE IF startswith(header, PNG) THEN "image/png"
            ELSE IF startswith(header, GIF87a) \/ startswith(header, GIF89a)
                 THEN "image/gif"
            ELSE IF startswith(header, RIFF) /\ contains(read(header, RiffWindow), WEBP)
                 THEN "image/webp"
            ELSE IF startswith(header, BM) THEN "image/bmp"
            ELSE IF startswith(header, ICO) THEN "image/x-icon"
            ELSE "application/octet-stream"

\* get_file_info; stat_ok: os.stat raises nothing; guessed: guess_type's answer
get_file_info(guessed, content, stat_ok, open_ok) ==
    IF ~stat_ok THEN [file_size |-> NoSize, mime_type |-> NoneStr]
    ELSE [file_size |-> Len(content),
          mime_type |-> IF guessed = NoneStr
                        THEN detect_mime_type_by_content(content, open_ok)
                        ELSE guessed]

(* The files examined: every magic number alone, followed by other          *)
(* bytes, and cut short by a byte; RIFF files with WEBP at several places;  *)
(* files that match nothing.                                                *)

Magics == {JPEG, PNG, GIF87a, GIF89a, BM, ICO}
MaxPadding == 5
Padding(n) == [k \in 1..n |-> 46]

FileContents ==
    Magics
    \cup {m \o <<1, 2>> : m \in Magics}
    \cup {SubSeq(m, 1, Len(m) - 1) : m \in Magics}
    \cup {RIFF \o Padding(n) \o WEBP : n \in 0..MaxPadding}
    \cup {RIFF, RIFF \o Padding(4) \o <<87, 65, 86, 69>>, WEBP \o RIFF}
    \cup {<<>>, <<60, 115, 118, 103>>, Padding(HeaderLen) \o JPEG}

GuessedTypes == {NoneStr, "image/png", "text/plain"}

InitMime ==
    /\ metadata_list = <<>>
    /\ \E guessed \in GuessedTypes : \E content \in FileContents :
       \E stat_ok \in BOOLEAN : \E open_ok \in BOOLEAN :
          ret = [op |-> "call", guessed |-> guessed, content |-> content,
                 stat_ok |-> stat_ok, open_ok |-> open_ok]
    /\ galleries = NoGalleries
    /\ gret = NoCall
    /\ RestIdle

GetFileInfo ==
    /\ ret.op = "call"
    /\ ret' = [op |-> "get_file_info", guessed |-> ret.guessed,
               content |-> ret.content, stat_ok |-> ret.stat_ok,
               open_ok |-> ret.open_ok,
               value |-> get_file_info(ret.guessed, ret.content, ret.stat_ok,
                                       ret.open_ok)]
    /\ UNCHANGED <<metadata_list, galleries, gret, rest_vars>>

NextMime == GetFileInfo

SpecMime == InitMime /\ [][NextMime]_vars

-----------------------------------------------------------------------------
(* session_manager.get_session, model/session_manager.py, and the           *)
(* ImagesService calls made in its body, model/images_service.py.           *)
(* SessionLocal has autoflush=False: a query reads the rows as the last     *)
(* flush left them, and an attribute set on a loaded object stays in the    *)
(* session (dirty) until a flush.  The log of the session lists the steps   *)
(* of the block: open, body, commit, rollback, close.                       *)

\* the ids the filter `deleted_at IS NULL` lets through
query_live(db) == {id \in 1..Len(db) : ~db[id].deleted}

\* get_by_id: .first() of the filtered query, <<>> for None
get_by_id(db, image_id) ==
    IF image_id \in query_live(db) THEN <<image_id>> ELSE <<>>

\* get_all without limit
get_all(db) == query_live(db)

\* count
count(db) == Cardinality(query_live(db))

\* flush: the UPDATE of every dirty object is sent
flush(db, dirty) ==
    [id \in 1..Len(db) |-> IF id \in dirty THEN [db[id] EXCEPT !.deleted = TRUE]
                           ELSE db[id]]

\* a block that commits whatever the body did
after_body_always_commit(outcome) == "commit"

\* where get_session continues when the body has ended: after the yield, in
\* the `except Exception` branch, or in the finally branch
after_body(outcome) ==
    IF outcome = "ok" THEN "commit"
    ELSE IF outcome = "Exception" THEN "except"
    ELSE "finally"

BodyOutcomes == {"ok", "Exception", "BaseException"}
CommitOutcomes == {"ok", "Exception"}

InitSession ==
    /\ metadata_list = <<>>
    /\ ret = NoCall
    /\ galleries = NoGalleries
    /\ gret = NoCall
    /\ RestIdle

\* session = SessionLocal(); yield session
OpenSession ==
    /\ session.pc \in {"none", "closed"}
    /\ session' = [pc |-> "body", dirty |-> {}, exc |-> "none", body |-> "none",
                   log |-> <<"open">>]
    /\ sret' = NoServiceCall
    /\ UNCHANGED <<metadata_list, ret, galleries, gret, image_table, file_present,
                   calls, soft_deleted, assoc_vars,
                   caption_vars>>

\* ImagesService.create_image in the body: session.add, session.flush
CreateImage ==
    /\ session.pc = "body"
    /\ Len(image_table) < MaxImages
    /\ image_table' = Append(flush(image_table, session.dirty), [deleted |-> FALSE])
    /\ session' = [session EXCEPT !.dirty = {}]
    /\ sret' = [op |-> "create_image", id |-> Len(image_table) + 1]
    /\ UNCHANGED <<metadata_list, ret, galleries, gret, file_present, calls,
                   soft_deleted, assoc_vars,
                   caption_vars>>

\* ImagesService.soft_delete in the body
SoftDelete ==
    /\ session.pc = "body"
    /\ \E image_id \in 1..MaxImages :
          LET image == get_by_id(image_table, image_id)
          IN /\ sret' = [op |-> "soft_delete", id |-> image_id,
                         value |-> image # <<>>,
                         before |-> image_id \in soft_deleted]
             /\ session' = IF image = <<>> THEN session
                           ELSE [session EXCEPT !.dirty = @ \cup {image_id}]
             /\ soft_deleted' = IF image = <<>> THEN soft_deleted
                                ELSE soft_deleted \cup {image_id}
    /\ UNCHANGED <<metadata_list, ret, galleries, gret, image_table, file_present,
                   calls, assoc_vars,
                   caption_vars>>

\* ImagesService.get_by_id in the body
GetById ==
    /\ session.pc = "body"
    /\ \E image_id \in 1..MaxImages :
          sret' = [op |-> "get_by_id", id |-> image_id,
                   value |-> get_by_id(image_table, image_id)]
    /\ UNCHANGED <<metadata_list, ret, galleries, gret, image_table, file_present,
                   calls, session, soft_deleted, assoc_vars,
                   caption_vars>>

\* ImagesService.get_all and ImagesService.count in the body
GetAll ==
    /\ session.pc = "body"
    /\ sret' = [op |-> "get_all", value |-> get_all(image_table),
                count |-> count(image_table)]
    /\ UNCHANGED <<metadata_list, ret, galleries, gret, image_table, file_present,
                   calls, session, soft_deleted, assoc_vars,
                   caption_vars>>

\* the body of the with block ends: normally, or by raising
BodyEnds ==
    /\ session.pc = "body"
    /\ \E outcome \in BodyOutcomes :
          session' = [session EXCEPT
              !.pc = after_body(outcome),
              !.body = outcome,
              !.exc = IF outcome = "ok" THEN "none" ELSE outcome,
              !.log = Append(@, "body")]
    /\ UNCHANGED <<metadata_list, ret, galleries, gret, image_table, file_present,
                   calls, sret, soft_deleted, assoc_vars,
                   caption_vars>>

\* session.commit(): the flush sends the dirty objects, or the commit raises
CommitSession ==
    /\ session.pc = "commit"
    /\ \E outcome \in CommitOutcomes :
          IF outcome = "ok"
          THEN /\ image_table' = flush(image_table, session.dirty)
               /\ session' = [session EXCEPT !.pc = "finally", !.dirty = {},
                                             !.log = Append(@, "commit")]
          ELSE /\ image_table' = image_table
               /\ session' = [session EXCEPT !.pc = "except", !.exc = "commit:Exception",
                                             !.log = Append(@, "commit")]
    /\ UNCHANGED <<metadata_list, ret, galleries, gret, file_present, calls, sret,
                   soft_deleted, assoc_vars,
                   caption_vars>>

\* except Exception: session.rollback(); raise
RollbackSession ==
    /\ session.pc = "except"
    /\ session' = [session EXCEPT !.pc = "finally", !.dirty = {},
                                  !.log = Append(@, "rollback")]
    /\ soft_deleted' = soft_deleted \ session.dirty
    /\ UNCHANGED <<metadata_list, ret, galleries, gret, image_table, file_present,
                   calls, sret, assoc_vars,
                   caption_vars>>

\* finally: session.close(); what was not flushed is dropped
CloseSession ==
    /\ session.pc = "finally"
    /\ session' = [session EXCEPT !.pc = "closed", !.dirty = {},
                                  !.log = Append(@, "close")]
    /\ soft_deleted' = soft_deleted \ session.dirty
    /\ UNCHANGED <<metadata_list, ret, galleries, gret, image_table, file_present,
                   calls, sret, assoc_vars,
                   caption_vars>>

NextSession ==
    \/ OpenSession
    \/ CreateImage
    \/ SoftDelete
    \/ GetById
    \/ GetAll
    \/ BodyEnds
    \/ CommitSession
    \/ RollbackSession
    \/ CloseSession

SpecSession == InitSession /\ [][NextSession]_vars

-----------------------------------------------------------------------------
(* Notions the properties are stated in *)

\* row i of the metadata table carries a perceptual hash
Present(i) ==
    /\ metadata_list[i].perceptual_hash # NoneVal
    /\ Len(metadata_list[i].perceptual_hash) > 0

\* the positions at which two strings of equal length hold different characters
Mismatches(a, b) == {k \in 1..Len(a) : a[k] # b[k]}

\* the differing bits of the unpacked hex values of two strings of equal length
RECURSIVE BitDistance(_, _, _)
BitDistance(a, b, k) ==
    IF k > Len(a) THEN 0 ELSE BitDiff(a[k], b[k]) + BitDistance(a, b, k + 1)

\* rows i and j carry hashes of equal length that differ in at most t characters
Close(i, j, t) ==
    LET a == metadata_list[i].perceptual_hash
        b == metadata_list[j].perceptual_hash
    IN Len(a) = Len(b) /\ Cardinality(Mismatches(a, b)) <= t

\* the later rows that belong to the group anchored at row i
Later(i, t) ==
    {j \in (i + 1)..Len(metadata_list) : Present(j) /\ Close(i, j, t)}

\* the rows that anchor a group
Anchors(t) == {i \in 1..Len(metadata_list) : Present(i) /\ Later(i, t) # {}}

\* the members of a group after its first
Rest(images) == {images[m] : m \in 2..Len(images)}

\* a sequence of row positions is strictly increasing
Increasing(images) == \A m \in 1..(Len(images) - 1) : images[m] < images[m + 1]

SimilarReturned == ret.op = "find_similar_images"
DuplicatesReturned == ret.op = "find_duplicate_images"
DistanceReturned == ret.op = "calculate_hamming_distance"

-----------------------------------------------------------------------------
(* C1: find_similar_images returns, in increasing anchor order, exactly one *)
(* group for each row i with a perceptual hash that has a later row j with  *)
(* a perceptual hash at distance <= threshold; the group lists row i and    *)
(* then all such j in input order, its count is the length of that list,    *)
(* and there are no other groups.                                           *)
C1_SimilarGroupsExact ==
    SimilarReturned =>
        LET t == ret.threshold
            groups == ret.value
        IN /\ Len(groups) = Cardinality(Anchors(t))
           /\ \A g \in 1..(Len(groups) - 1) :
                 groups[g].images[1] < groups[g + 1].images[1]
           /\ \A g \in 1..Len(groups) :
                 LET images == groups[g].images
                 IN /\ images[1] \in Anchors(t)
                    /\ Rest(images) = Later(images[1], t)
                    /\ Len(images) = 1 + Cardinality(Later(images[1], t))
                    /\ Increasing(images)
                    /\ groups[g].count = Len(images)
                    /\ groups[g].threshold = t

\* two groups are returned and the first has three members
C1_Witness ==
    /\ SimilarReturned
    /\ Len(ret.value) = 2
    /\ Len(ret.value[1].images) = 3
    /\ \E i \in 1..Len(metadata_list) : Present(i) /\ i \notin Anchors(ret.threshold)

(* C2: a row j collected into the group of an earlier anchor is still used  *)
(* as an anchor: whenever a later row k is within the threshold of j, a     *)
(* group anchored at j is returned as well, so a row can be in two groups.  *)
C2_MembersStillAnchor ==
    SimilarReturned =>
        \A g \in 1..Len(ret.value) : \A j \in Rest(ret.value[g].images) :
            Later(j, ret.threshold) # {} =>
                \E g2 \in 1..Len(ret.value) :
                    /\ g2 # g
                    /\ ret.value[g2].images[1] = j
                    /\ Rest(ret.value[g2].images) = Later(j, ret.threshold)

\* row 2 is a member of the group of row 1 and the anchor of a group that holds
\* row 3, which is not in the group of row 1
C2_Witness ==
    /\ SimilarReturned
    /\ Len(ret.value) = 2
    /\ ret.value[1].images = <<1, 2>>
    /\ ret.value[2].images = <<2, 3>>

(* C3: find_duplicate_images partitions the rows by equality of image_hash: *)
(* every hash carried by two or more rows has exactly one group, whose      *)
(* members are its rows in input order and whose count is their number;     *)
(* every row is in at most one group; a hash of one row has no group.       *)
C3_DuplicateGroupsExact ==
    DuplicatesReturned =>
        LET groups == ret.value
            rows == 1..Len(metadata_list)
            Carriers(h) == {i \in rows : metadata_list[i].image_hash = h}
            GroupsOf(h) == {g \in 1..Len(groups) : groups[g].image_hash = h}
            hashes == {metadata_list[i].image_hash : i \in rows} \ {NoneVal}
        IN /\ \A h \in hashes :
                 IF Cardinality(Carriers(h)) >= 2
                 THEN Cardinality(GroupsOf(h)) = 1
                 ELSE GroupsOf(h) = {}
           /\ \A g \in 1..Len(groups) :
                 LET images == groups[g].images
                 IN /\ {images[m] : m \in 1..Len(images)} = Carriers(groups[g].image_hash)
                    /\ Len(images) = Cardinality(Carriers(groups[g].image_hash))
                    /\ Increasing(images)
                    /\ groups[g].count = Len(images)
           /\ \A i \in rows :
                 Cardinality({g \in 1..Len(groups) :
                     \E m \in 1..Len(groups[g].images) : groups[g].images[m] = i}) <= 1

\* two hashes with two rows each: two groups, in first-seen order
C3_Witness ==
    /\ DuplicatesReturned
    /\ Len(ret.value) = 2
    /\ ret.value[1].images = <<1, 3>>
    /\ ret.value[2].images = <<2, 4>>
    /\ ret.value[1].image_hash = HashB

\* the galleries below gallery g: its children, their children, and so on
Descendants(g) ==
    LET kids == [x \in 1..Len(galleries) |->
                    {c \in 1..Len(galleries) : galleries[c].parent_id = x}]
    IN reach(kids, {g}, {})

(* C4: after any sequence of create_gallery and move_gallery calls the      *)
(* parent relation among the galleries is acyclic: no gallery is its own    *)
(* parent or its own transitive ancestor.                                   *)
C4_ParentRelationAcyclic ==
    \A g \in 1..Len(galleries) : g \notin Descendants(g)

(* C4, the step it rests on: move_gallery(g, p) is rejected, and no row is  *)
(* changed, whenever p is g itself or a descendant of g.                    *)
C4_MoveRejectsCycles ==
    [][(/\ gret'.op = "move_gallery"
        /\ gret'.gallery_id \in 1..Len(galleries)
        /\ gret'.parent_id \in {gret'.gallery_id} \cup Descendants(gret'.gallery_id))
       => (gret'.result # "True" /\ galleries' = galleries)]_vars

(* C5: for two fingerprints of equal length calculate_hamming_distance      *)
(* returns the number of positions at which the strings hold different      *)
(* characters.                                                              *)
C5_CountsCharacters ==
    (DistanceReturned /\ Len(ret.hash1) = Len(ret.hash2)) =>
        ret.value = Cardinality(Mismatches(ret.hash1, ret.hash2))

\* two strings that differ in one character and in two bits: the result is 1
C5_Witness ==
    /\ DistanceReturned
    /\ Len(ret.hash1) = Len(ret.hash2)
    /\ ret.value = 1
    /\ BitDistance(ret.hash1, ret.hash2, 1) = 2

(* C6 as stated: for h0, h1, h2 of the example the distances are            *)
(* d(h0,h1) = 1, d(h0,h2) = 2 and d(h1,h2) = 1, and with threshold 2 the    *)
(* scan anchored at h0 yields the group h0, h1, h2.                         *)
C6_ExampleAsStated ==
    (SimilarReturned /\ metadata_list = ExampleRows) =>
        /\ ret.distances = {<<1, 2, 1>>, <<1, 3, 2>>, <<2, 3, 1>>}
        /\ ret.threshold = 2 => ret.value[1].images = <<1, 2, 3>>

(* C6 amended: for h0, h1, h2 of the example the distances are              *)
(* d(h0,h1) = 1, d(h0,h2) = 1 (the strings differ in one character) and     *)
(* d(h1,h2) = 1, and with threshold 2 the scan anchored at h0 yields the    *)
(* group h0, h1, h2.                                                        *)
C6_ExampleCharacterDistances ==
    (SimilarReturned /\ metadata_list = ExampleRows) =>
        /\ ret.distances = {<<1, 2, 1>>, <<1, 3, 1>>, <<2, 3, 1>>}
        /\ ret.threshold = 2 => ret.value[1].images = <<1, 2, 3>>

\* the example rows, clustered with threshold 2
C6_Witness ==
    /\ SimilarReturned
    /\ metadata_list = ExampleRows
    /\ ret.threshold = 2
    /\ Len(ret.value) >= 1

(* C7: for fingerprints a, b of equal length n the distance is symmetric,   *)
(* zero from a to a, and between 0 and n.                                   *)
C7_SymmetricBounded ==
    (DistanceReturned /\ Len(ret.hash1) = Len(ret.hash2)) =>
        /\ ret.value = calculate_hamming_distance(ret.hash2, ret.hash1)
        /\ ret.hash1 = ret.hash2 => ret.value = 0
        /\ 0 <= ret.value
        /\ ret.value <= Len(ret.hash1)

\* two different strings whose distance is their full length
C7_Witness ==
    /\ DistanceReturned
    /\ Len(ret.hash1) = Len(ret.hash2)
    /\ Len(ret.hash1) = MaxHashLen
    /\ ret.value = Len(ret.hash1)

(* C8: for two fingerprints of different length the comparator returns the  *)
(* sentinel, which is within no threshold, so two rows whose fingerprints   *)
(* differ in length are never anchor and member of one group.               *)
C8_DifferentLengthsIncomparable ==
    SimilarReturned =>
        \A d \in ret.distances :
            Len(metadata_list[d[1]].perceptual_hash) # Len(metadata_list[d[2]].perceptual_hash)
            => /\ d[3] = Inf
               /\ \A t \in Thresholds \cup {DefaultThreshold} : ~within_threshold(d[3], t)
               /\ \A g \in 1..Len(ret.value) :
                     ~(ret.value[g].images[1] = d[1] /\ d[2] \in Rest(ret.value[g].images))

\* a row whose hash is a proper prefix of the next row's hash, and a group
\* that the next row anchors
C8_Witness ==
    /\ SimilarReturned
    /\ Len(metadata_list) = 3
    /\ metadata_list[1].perceptual_hash = <<0>>
    /\ metadata_list[2].perceptual_hash = <<0, 0>>
    /\ ret.value # <<>>
    /\ ret.value[1].images = <<2, 3>>

RECURSIVE PresentRows(_)
PresentRows(i) ==
    IF i > Len(metadata_list) THEN <<>>
    ELSE IF Present(i) THEN <<i>> \o PresentRows(i + 1) ELSE PresentRows(i + 1)

\* the groups of the table without its hashless rows, named by original position
GroupsOfPresentRows(t) ==
    LET keep == PresentRows(1)
        kept == [k \in 1..Len(keep) |-> metadata_list[keep[k]]]
        groups == find_similar_images(kept, t)
    IN [g \in 1..Len(groups) |->
           [groups[g] EXCEPT !.images = [m \in 1..Len(@) |-> keep[@[m]]]]]

(* C10: a row whose perceptual hash is null or empty is in no returned      *)
(* group, as anchor or as member, and the groups are those of the table     *)
(* without such rows.                                                       *)
C10_HashlessRowsSkipped ==
    SimilarReturned =>
        /\ \A g \in 1..Len(ret.value) : \A m \in 1..Len(ret.value[g].images) :
              Present(ret.value[g].images[m])
        /\ ret.value = GroupsOfPresentRows(ret.threshold)

\* a group of rows 1 and 3 around a hashless row 2
C10_Witness ==
    /\ SimilarReturned
    /\ Len(metadata_list) = 3
    /\ ~Present(2)
    /\ ret.value # <<>>
    /\ ret.value[1].images = <<1, 3>>

\* the mean-threshold bit of pixel k of a grid: 1 exactly when the pixel is
\* strictly greater than the arithmetic mean of all pixels
RECURSIVE Total(_, _)
Total(pixels, k) == IF k = 0 THEN 0 ELSE pixels[k] + Total(pixels, k - 1)

MeanBit(pixels, k) ==
    IF NumPixels * pixels[k] > Total(pixels, NumPixels) THEN 1 ELSE 0

PerceptualReturned == ret.op = "calculate_image_perceptual_hash"

(* C13: for the 64 pixels in row-major order the perceptual hash is the     *)
(* 16-character zero-padded hex form of the 64-bit number whose k-th most   *)
(* significant bit is 1 exactly when pixel k is above the mean; a uniform   *)
(* grid gives sixteen zeros and no grid gives sixteen f.                    *)
C13_MeanThresholdHex ==
    PerceptualReturned =>
        /\ Len(ret.value) = PerceptualHashLen
        /\ \A m \in 1..PerceptualHashLen :
              ret.value[m] = 8 * MeanBit(ret.pixels, 4 * m - 3)
                           + 4 * MeanBit(ret.pixels, 4 * m - 2)
                           + 2 * MeanBit(ret.pixels, 4 * m - 1)
                           + MeanBit(ret.pixels, 4 * m)
        /\ (\A k \in 1..NumPixels : ret.pixels[k] = ret.pixels[1]) => ret.value = H0
        /\ ret.value # [m \in 1..PerceptualHashLen |-> 15]

\* a grid whose first pixels are below the mean and whose last pixel is above
\* it: the hash starts with a padding zero and ends in an odd digit
C13_Witness ==
    /\ PerceptualReturned
    /\ ret.value[1] = 0
    /\ ret.value[PerceptualHashLen] % 2 = 1
    /\ ret.pixels[1] < ret.pixels[NumPixels]

\* the results of the calculate_image_hashes calls that have returned, each
\* with the thread that made it
HashResults ==
    {<<t, m>> : t \in Threads, m \in 1..MaxCalls} \cap
    {c \in Threads \X (1..MaxCalls) : c[2] <= Len(calls[c[1]].results)}

ResultOf(c) == calls[c[1]].results[c[2]]
InputOf(c) == calls[c[1]].input

(* C11: calculate_image_hashes reports success only when both hashes were   *)
(* computed, and a result without success carries no hash at all.           *)
C11_NoPartialResult ==
    \A c \in HashResults :
        /\ ResultOf(c).value.success =>
              (ResultOf(c).value.image_hash # NoneVal
               /\ ResultOf(c).value.perceptual_hash # NoneVal)
        /\ ~ResultOf(c).value.success =>
              (ResultOf(c).value.image_hash = NoneVal
               /\ ResultOf(c).value.perceptual_hash = NoneVal)

(* C16: the result of calculate_image_hashes for an input is the same       *)
(* whatever calls came before it or run beside it: two calls with equal     *)
(* inputs that found the file system in the same state return equal         *)
(* results.                                                                 *)
C16_ResultsIndependentOfCalls ==
    \A c \in HashResults : \A d \in HashResults :
        (InputOf(c) = InputOf(d) /\ ResultOf(c).seen = ResultOf(d).seen)
            => ResultOf(c).value = ResultOf(d).value

\* a stream was hashed a second time, after a call that left it at its end,
\* while the other thread was between the two hash computations of its call
C16_Witness ==
    /\ calls # <<>>
    /\ calls["t1"].input.kind = "BytesIO"
    /\ calls["t1"].input.content # Corrupt
    /\ Len(calls["t1"].results) = 2
    /\ calls["t2"].input = calls["t1"].input
    /\ Len(calls["t2"].results) = 1
    /\ calls["t2"].pc = "hashed"

(* C17: the content hash is determined by the decoded pixel grid alone: two *)
(* inputs with the same grid, whatever their container or kind, have the    *)
(* same content hash.                                                       *)
C17_HashOfPixelsOnly ==
    \A c \in HashResults : \A d \in HashResults :
        (/\ InputOf(c).content.grid = InputOf(d).content.grid
         /\ ResultOf(c).value.image_hash # NoneVal
         /\ ResultOf(d).value.image_hash # NoneVal)
            => ResultOf(c).value.image_hash = ResultOf(d).value.image_hash

CreateReturned == ret.op = "create_image_with_metadata"

\* the rows of a table that belong to image id
RowsOf(table, id) == {k \in 1..Len(table) : table[k].image_id = id}

(* C12: a failure of the hash computations reaches the caller as an         *)
(* explicit failure, and create_image_with_metadata stores no fingerprint   *)
(* of a result whose success flag is false.                                 *)
C12_FailedResultNeverStored ==
    (CreateReturned /\ ~ret.hash_result.success) =>
        RowsOf(metadata_list, ret.image_id) = {}

(* C14: no two stored metadata rows have the same image_hash, a call whose  *)
(* content hash is already stored raises and stores nothing, and            *)
(* find_duplicate_images reports no group.                                  *)
C14_DuplicateStoresNothing ==
    [][(/\ ret'.op = "create_image_with_metadata"
        /\ \E k \in 1..Len(metadata_list) :
              metadata_list[k].image_hash = ret'.hash_result.image_hash)
       => (/\ ret'.result = "raise"
           /\ metadata_list' = metadata_list
           /\ image_table' = image_table)]_vars

(* C20: a call either returns with the image row and its metadata row       *)
(* stored, the image_hash not null, or raises with neither stored; every    *)
(* image row has its metadata row.                                          *)
C20_AllOrNothing ==
    /\ \A id \in 1..Len(image_table) :
          \E k \in RowsOf(metadata_list, id) : metadata_list[k].image_hash # NoneVal
    /\ CreateReturned =>
          (ret.result = "returned" <=> ret.image_id \in 1..Len(image_table))

FileInfoReturned == ret.op = "get_file_info"

\* file f begins with the bytes p
Begins(f, p) == Len(p) <= Len(f) /\ \A k \in 1..Len(p) : f[k] = p[k]

\* the bytes p stand in file f at the positions from+1 .. from+Len(p)
StandsAt(f, p, from) ==
    from + Len(p) <= Len(f) /\ \A k \in 1..Len(p) : f[from + k] = p[k]

\* the entry of the magic-byte table for file f, in the documented order
TableEntry(f) ==
    IF Begins(f, JPEG) THEN "image/jpeg"
    ELSE IF Begins(f, PNG) THEN "image/png"
    ELSE IF Begins(f, GIF87a) \/ Begins(f, GIF89a) THEN "image/gif"
    ELSE IF Begins(f, RIFF)
            /\ \E from \in 0..(RiffWindow - Len(WEBP)) : StandsAt(f, WEBP, from)
         THEN "image/webp"
    ELSE IF Begins(f, BM) THEN "image/bmp"
    ELSE IF Begins(f, ICO) THEN "image/x-icon"
    ELSE "application/octet-stream"

(* C15 as stated: the mime type is that of the extension when it is         *)
(* recognised, otherwise the entry of the magic-byte table for the file,    *)
(* application/octet-stream when nothing matches; size and mime type are    *)
(* both null only when the file cannot be stat'ed.                          *)
C15_MimeAsStated ==
    FileInfoReturned =>
        /\ (ret.stat_ok /\ ret.guessed # NoneStr) => ret.value.mime_type = ret.guessed
        /\ (ret.stat_ok /\ ret.guessed = NoneStr) =>
              ret.value.mime_type = TableEntry(ret.content)
        /\ (ret.value.file_size = NoSize /\ ret.value.mime_type = NoneStr)
              => ~ret.stat_ok

(* C15, amended: as above when the file can be opened and read; when the    *)
(* extension is not recognised and the file cannot be opened, the mime type *)
(* is null and the size is still reported.                                  *)
C15_MimeWhenReadable ==
    FileInfoReturned =>
        /\ (ret.stat_ok /\ ret.guessed # NoneStr) => ret.value.mime_type = ret.guessed
        /\ (ret.stat_ok /\ ret.guessed = NoneStr /\ ret.open_ok) =>
              ret.value.mime_type = TableEntry(ret.content)
        /\ (ret.stat_ok /\ ret.guessed = NoneStr /\ ~ret.open_ok) =>
              ret.value.mime_type = NoneStr
        /\ ret.stat_ok => ret.value.file_size = Len(ret.content)
        /\ ~ret.stat_ok =>
              (ret.value.file_size = NoSize /\ ret.value.mime_type = NoneStr)

\* a RIFF file without a recognised extension whose WEBP tag starts after
\* byte 12 of a readable file: the table has no entry for it
C15_Witness ==
    /\ FileInfoReturned
    /\ ret.stat_ok /\ ret.open_ok /\ ret.guessed = NoneStr
    /\ Begins(ret.content, RIFF)
    /\ \E from \in (RiffWindow - Len(WEBP) + 1)..MaxPadding + Len(RIFF) :
          StandsAt(ret.content, WEBP, from)
    /\ ret.value.mime_type = "application/octet-stream"

\* the positions of a step in the log of the session
Positions(step) == {k \in 1..Len(session.log) : session.log[k] = step}

SessionClosed == session.pc = "closed"

(* C18: once soft_delete(id) has returned True, get_by_id(id) returns None, *)
(* get_all and count leave the image out and another soft_delete(id)        *)
(* returns False, in the same session and in later ones; the row stays in   *)
(* the table.                                                               *)
C18_SoftDeletedExcluded ==
    /\ (sret.op = "get_by_id" /\ sret.id \in soft_deleted) => sret.value = <<>>
    /\ sret.op = "get_all" =>
          (sret.value \cap soft_deleted = {}
           /\ sret.count = Len(image_table) - Cardinality(soft_deleted))
    /\ (sret.op = "soft_delete" /\ sret.before) => ~sret.value
    /\ soft_deleted \subseteq 1..Len(image_table)

(* C19 as stated: the steps of a get_session block are open, body, then     *)
(* commit or rollback, then close; commit only after a body that raised     *)
(* nothing; rollback whenever the body or the commit raised, the exception  *)
(* going on to the caller; close once and last.                             *)
C19_OrderAsStated ==
    SessionClosed =>
        /\ session.log[1] = "open" /\ session.log[2] = "body"
        /\ Positions("commit") # {} => session.body = "ok"
        /\ session.exc # "none" => Positions("rollback") # {}
        /\ Positions("close") = {Len(session.log)}

(* C19, amended: as above, with rollback called when the body or the commit *)
(* raised an Exception; an exception outside Exception (KeyboardInterrupt,  *)
(* SystemExit) leaves the block through close alone.                        *)
C19_OrderForExceptions ==
    /\ (session.pc \in {"commit", "except", "finally", "closed"}) =>
          (session.log[1] = "open" /\ session.log[2] = "body")
    /\ Positions("commit") # {} => session.body = "ok"
    /\ SessionClosed =>
          /\ Positions("close") = {Len(session.log)}
          /\ session.body = "ok" =>
                (Positions("commit") = {3}
                 /\ (session.exc = "none" => session.log = <<"open", "body", "commit", "close">>)
                 /\ (session.exc # "none" =>
                        session.log = <<"open", "body", "commit", "rollback", "close">>
                        /\ session.exc = "commit:Exception"))
          /\ session.body = "Exception" =>
                (session.log = <<"open", "body", "rollback", "close">>
                 /\ session.exc = "Exception")
          /\ session.body = "BaseException" =>
                (session.log = <<"open", "body", "close">>
                 /\ session.exc = "BaseException")

\* a block whose commit raised: rolled back, closed, the exception kept
C19_Witness ==
    /\ SessionClosed
    /\ session.log = <<"open", "body", "commit", "rollback", "close">>
    /\ session.exc = "commit:Exception"

\* gallery g is a row that is not deleted
LiveGallery(g) == g \in 1..Len(galleries) /\ ~galleries[g].deleted

\* row g of table gs has the level and the path its parent gives it
LevelAndPath(gs, g) ==
    LET p == gs[g].parent_id
    IN /\ (p \in 1..Len(gs) /\ ~gs[p].deleted) =>
             (gs[g].level = gs[p].level + 1 /\ gs[g].path = gs[p].path \o <<g>>)
       /\ p = NoParent => (gs[g].level = 0 /\ gs[g].path = <<g>>)

\* the rows of table gs below row g
Below(gs, g) ==
    reach([x \in 1..Len(gs) |-> {c \in 1..Len(gs) : gs[c].parent_id = x}], {g}, {})

(* C21: after any sequence of create_gallery and move_gallery calls a       *)
(* gallery under a live parent has the level of the parent plus one and the *)
(* path of the parent followed by its own name, and a gallery without       *)
(* parent has level 0 and its name as path.                                 *)
C21_LevelAndPathFollowParent ==
    \A g \in 1..Len(galleries) : LevelAndPath(galleries, g)

(* C21, for a move that closes no cycle: after move_gallery(g, p) has       *)
(* returned True, p neither g nor below g, the level and the path of g and  *)
(* of every gallery below g follow their parents.                           *)
C21_MoveSetsLevelAndPath ==
    [][(/\ gret'.op = "move_gallery" /\ gret'.result = "True"
        /\ gret'.parent_id \notin {gret'.gallery_id} \cup Descendants(gret'.gallery_id))
       => \A x \in {gret'.gallery_id} \cup Below(galleries', gret'.gallery_id) :
             LevelAndPath(galleries', x)]_vars

(* C22: move_gallery(g, p) raises its cycle error only for a move that      *)
(* would close a cycle: for live g and p, p not g and not below g, it       *)
(* returns True and p becomes the parent of g.                              *)
C22_OnlyCyclesRejected ==
    [][(/\ gret'.op = "move_gallery"
        /\ LiveGallery(gret'.gallery_id)
        /\ LiveGallery(gret'.parent_id)
        /\ gret'.parent_id \notin {gret'.gallery_id} \cup Descendants(gret'.gallery_id))
       => (/\ gret'.result = "True"
           /\ galleries'[gret'.gallery_id].parent_id = gret'.parent_id)]_vars

(* C23: when a soft delete_gallery(g) has returned True, g and every        *)
(* gallery below g is marked deleted and no query returns it, and the       *)
(* deleted mark of every other gallery is as before.                        *)
C23_DeleteMarksSubtreeOnly ==
    [][(gret'.op = "delete_gallery" /\ gret'.result = "True")
       => \A x \in 1..Len(galleries) :
             IF x \in {gret'.gallery_id} \cup Descendants(gret'.gallery_id)
             THEN /\ galleries'[x].deleted
                  /\ get_gallery_by_id(galleries', x) = 0
                  /\ \A q \in 0..Len(galleries) :
                        x \notin get_galleries_by_parent(galleries', q)
             ELSE galleries'[x].deleted = galleries[x].deleted]_vars

(* C24: after any sequence of create_gallery, move_gallery and              *)
(* delete_gallery calls the parent_id of a gallery that is not deleted is   *)
(* null or the id of a gallery that exists and is not deleted.              *)
C24_LiveParent ==
    \A g \in 1..Len(galleries) :
        ~galleries[g].deleted =>
            (galleries[g].parent_id = NoParent \/ LiveGallery(galleries[g].parent_id))

(***************************************************************************)
(* The images of a gallery: GalleryService.add_image_to_gallery,           *)
(* remove_image_from_gallery and set_cover_image                           *)
(* (src/model/gallery_service.py).  gallery_images is the table after the  *)
(* call's session has committed; every call runs in a session of its own,  *)
(* made with autoflush=False, so that a query inside the call reads the    *)
(* rows as of the call's last flush.  The galleries 1..MaxAlbums exist and *)
(* are live.                                                               *)
(***************************************************************************)
MaxAlbums == 2
MaxPictures == 2
MaxAssociations == 2

\* the first live association of the image with the gallery, 0 for None
live_association(rows, gallery_id, image_id) ==
    LET found == {k \in 1..Len(rows) :
                     /\ rows[k].gallery_id = gallery_id
                     /\ rows[k].image_id = image_id
                     /\ ~rows[k].deleted}
    IN IF found = {} THEN 0 ELSE CHOOSE k \in found : \A j \in found : k <= j

\* the count query of _update_gallery_counts
count_live(rows, gallery_id) ==
    Cardinality({k \in 1..Len(rows) :
                    rows[k].gallery_id = gallery_id /\ ~rows[k].deleted})

\* db is the table the count query reads
update_gallery_counts(db, stats, gallery_id) ==
    [stats EXCEPT ![gallery_id].image_count = count_live(db, gallery_id)]

\* <<the association returned, the table, the galleries>>
add_image_to_gallery(rows, stats, gallery_id, image_id, is_cover) ==
    LET existing == live_association(rows, gallery_id, image_id)
        flushed == Append(rows, [gallery_id |-> gallery_id, image_id |-> image_id,
                                 deleted |-> FALSE, is_cover |-> is_cover])
    IN IF existing # 0
       THEN <<existing, rows, stats>>
       ELSE <<Len(flushed), flushed, update_gallery_counts(flushed, stats, gallery_id)>>

\* the table without row k
session_delete(rows, k) ==
    [j \in 1..(Len(rows) - 1) |-> IF j < k THEN rows[j] ELSE rows[j + 1]]

\* <<the result, the table, the galleries>>; the removal is flushed by the
\* commit only, after the count query has run
remove_image_from_gallery(rows, stats, gallery_id, image_id, hard_delete) ==
    LET k == live_association(rows, gallery_id, image_id)
    IN IF k = 0
       THEN <<FALSE, rows, stats>>
       ELSE <<TRUE,
              IF hard_delete THEN session_delete(rows, k)
                             ELSE [rows EXCEPT ![k].deleted = TRUE],
              update_gallery_counts(rows, stats, gallery_id)>>

\* the bulk UPDATE that opens set_cover_image
clear_covers(rows, gallery_id) ==
    [k \in 1..Len(rows) |->
        IF rows[k].gallery_id = gallery_id /\ rows[k].is_cover /\ ~rows[k].deleted
        THEN [rows[k] EXCEPT !.is_cover = FALSE]
        ELSE rows[k]]

\* <<the result, the table, the galleries>>
set_cover_image(rows, stats, gallery_id, image_id) ==
    LET cleared == clear_covers(rows, gallery_id)
        k == live_association(cleared, gallery_id, image_id)
    IN IF k # 0
       THEN <<TRUE, [cleared EXCEPT ![k].is_cover = TRUE],
              [stats EXCEPT ![gallery_id].cover_image_id = image_id]>>
       ELSE <<FALSE, cleared, stats>>

InitGalleryImages ==
    /\ metadata_list = <<>>
    /\ ret = NoCall
    /\ galleries = NoGalleries
    /\ gret = NoCall
    /\ image_table = <<>>
    /\ file_present = TRUE
    /\ calls = <<>>
    /\ SessionIdle
    /\ CaptionIdle
    /\ gallery_images = <<>>
    /\ albums = [g \in 1..MaxAlbums |-> [image_count |-> 0, cover_image_id |-> 0]]

AssocUnchanged ==
    UNCHANGED <<metadata_list, ret, galleries, image_table, file_present, calls,
                session_vars, caption_vars>>

AddImageToGallery ==
    \E gallery_id \in 1..MaxAlbums, image_id \in 1..MaxPictures, is_cover \in BOOLEAN :
        LET r == add_image_to_gallery(gallery_images, albums, gallery_id, image_id, is_cover)
        IN /\ Len(r[2]) <= MaxAssociations
           /\ gallery_images' = r[2]
           /\ albums' = r[3]
           /\ gret' = [op |-> "add_image_to_gallery", gallery_id |-> gallery_id,
                       image_id |-> image_id, result |-> r[1] # 0,
                       existing |-> r[2] = gallery_images]
           /\ AssocUnchanged

RemoveImageFromGallery ==
    \E gallery_id \in 1..MaxAlbums, image_id \in 1..MaxPictures, hard_delete \in BOOLEAN :
        LET r == remove_image_from_gallery(gallery_images, albums, gallery_id, image_id,
                                           hard_delete)
        IN /\ gallery_images' = r[2]
           /\ albums' = r[3]
           /\ gret' = [op |-> "remove_image_from_gallery", gallery_id |-> gallery_id,
                       image_id |-> image_id, result |-> r[1], existing |-> FALSE]
           /\ AssocUnchanged

SetCoverImage ==
    \E gallery_id \in 1..MaxAlbums, image_id \in 1..MaxPictures :
        LET r == set_cover_image(gallery_images, albums, gallery_id, image_id)
        IN /\ gallery_images' = r[2]
           /\ albums' = r[3]
           /\ gret' = [op |-> "set_cover_image", gallery_id |-> gallery_id,
                       image_id |-> image_id, result |-> r[1], existing |-> FALSE]
           /\ AssocUnchanged

NextGalleryImages == AddImageToGallery \/ RemoveImageFromGallery \/ SetCoverImage

SpecGalleryImages == InitGalleryImages /\ [][NextGalleryImages]_vars

\* the live associations of a gallery that are marked as its cover
covers(rows, gallery_id) ==
    {k \in 1..Len(rows) :
        /\ rows[k].gallery_id = gallery_id
        /\ rows[k].is_cover
        /\ ~rows[k].deleted}

Covers(gallery_id) == covers(gallery_images, gallery_id)

(***************************************************************************)
(* C25: after every add_image_to_gallery and every                         *)
(* remove_image_from_gallery, soft or hard, the gallery's image_count is   *)
(* the number of its live associations, and no image has two live          *)
(* associations with one gallery.                                          *)
(***************************************************************************)
C25_ImageCountIsLiveCount ==
    /\ \A g \in 1..MaxAlbums : albums[g].image_count = count_live(gallery_images, g)
    /\ \A j, k \in 1..Len(gallery_images) :
          (/\ j # k
           /\ ~gallery_images[j].deleted
           /\ ~gallery_images[k].deleted
           /\ gallery_images[j].gallery_id = gallery_images[k].gallery_id)
          => gallery_images[j].image_id # gallery_images[k].image_id

\* the part of C25 about the pairs
C25_OneLiveAssociationPerPair ==
    \A g \in 1..MaxAlbums, i \in 1..MaxPictures :
        Cardinality({k \in 1..Len(gallery_images) :
                        /\ gallery_images[k].gallery_id = g
                        /\ gallery_images[k].image_id = i
                        /\ ~gallery_images[k].deleted}) <= 1

\* the part of C26 about the number of covers
C26_AtMostOneCover == \A g \in 1..MaxAlbums : Cardinality(Covers(g)) <= 1

(***************************************************************************)
(* C26: every gallery has at most one live association marked as cover;    *)
(* when set_cover_image(g, img) has returned True that cover is img and    *)
(* the gallery's cover_image_id is img; a set_cover_image that returns     *)
(* False changes no association and no gallery.                            *)
(***************************************************************************)
C26_SingleCover ==
    [][/\ \A g \in 1..MaxAlbums : Cardinality(covers(gallery_images', g)) <= 1
       /\ (gret'.op = "set_cover_image" /\ gret'.result)
          => /\ \A k \in covers(gallery_images', gret'.gallery_id) :
                   gallery_images'[k].image_id = gret'.image_id
             /\ covers(gallery_images', gret'.gallery_id) # {}
             /\ albums'[gret'.gallery_id].cover_image_id = gret'.image_id
       /\ (gret'.op = "set_cover_image" /\ ~gret'.result)
          => UNCHANGED <<gallery_images, albums>>]_vars

\* the part of C26 about a set_cover_image that returns False
C26_FalseChangesNothing ==
    [][(gret'.op = "set_cover_image" /\ ~gret'.result)
          => UNCHANGED <<gallery_images, albums>>]_vars

(***************************************************************************)
(* Captions: CaptionService (src/model/caption_service.py) and the loader  *)
(* load_image_caption_with_retry (src/batch_load_caption.py).              *)
(* caption_types[id] is the name of the caption type id, image_captions    *)
(* the rows of the captions.  A database statement of an attempt either    *)
(* succeeds or raises; the text of an exception is the sequence of its     *)
(* fragments, a wrapper putting its own fragment in front of str(e).       *)
(***************************************************************************)
MaxRetries == 3
MaxLoads == 2

TypeNames == {"tags", "nl"}

Locked == "database is locked"
OtherError == "disk I/O error"
KeyboardInterrupt == "KeyboardInterrupt"

\* what a statement can raise; KeyboardInterrupt is no Exception
Faults == {Locked, OtherError, KeyboardInterrupt}

\* the statements of one attempt: the INSERT of the image, the SELECT of the
\* caption type, the INSERT of a missing caption type, the INSERT of the caption
Statements == 1..4

\* text in str(e)
message_contains(message, text) == \E k \in 1..Len(message) : message[k] = text

\* raise Exception(f"...: {str(e)}")
wrapped(prefix, message) == <<prefix>> \o message

\* what a flush raises once an earlier flush of the session has failed
pending_rollback(original) == wrapped("Original exception was: ", original)

\* the query of get_or_create_caption_type: the id of the type, 0 for None
caption_type_named(types, name) ==
    LET found == {id \in 1..Len(types) : types[id] = name}
    IN IF found = {} THEN 0 ELSE CHOOSE id \in found : \A j \in found : id <= j

\* <<the id of the type, the table>>
get_or_create_caption_type(types, name) ==
    IF caption_type_named(types, name) # 0
    THEN <<caption_type_named(types, name), types>>
    ELSE <<Len(types) + 1, Append(types, name)>>

\* the words a caption is made of
Words == {"cat", "dog"}

\* the content the loader stores
LoadedContent == <<"cat">>

\* ImageCaption(image_id=..., caption_type_id=..., content=..., is_primary=...)
caption_row(image_id, caption_type_id, content, is_primary) ==
    [image_id |-> image_id, caption_type_id |-> caption_type_id,
     content |-> content, is_primary |-> is_primary]

\* the try block of one attempt on the store db, with the statement fault_at
\* raising fault (fault_at = 0: no statement raises)
attempt_body(db, fault_at, fault, caption_type) ==
    LET stored == [db EXCEPT !.images = Append(@, [deleted |-> FALSE])]
        typed == get_or_create_caption_type(stored.types, caption_type)
        creates_type == typed[2] # stored.types
        with_type == [stored EXCEPT !.types = typed[2]]
        captioned == [with_type EXCEPT
                        !.captions = Append(@, caption_row(Len(stored.images), typed[1],
                                                           LoadedContent, FALSE))]
        raised(kind, message, after) ==
            [kind |-> kind, message |-> message, db |-> after]
        failing(prefix, after, breaks) ==
            IF fault = KeyboardInterrupt
            THEN raised("BaseException", <<fault>>, after)
            ELSE raised("Exception", wrapped(prefix, <<fault>>),
                        IF breaks THEN [after EXCEPT !.failed = <<fault>>] ELSE after)
    IN IF db.failed # <<>>
       THEN raised("Exception",
                   wrapped("create_image failed: ", pending_rollback(db.failed)), db)
       ELSE IF fault_at = 1 THEN failing("create_image failed: ", db, TRUE)
       ELSE IF fault_at = 2 THEN failing("add_caption failed: ", stored, FALSE)
       ELSE IF fault_at = 3 /\ creates_type
            THEN failing("add_caption failed: ", stored, TRUE)
       ELSE IF fault_at = 4 THEN failing("add_caption failed: ", with_type, TRUE)
       ELSE raised("ok", <<>>, captioned)

\* an except branch that starts another attempt after any Exception
retries_any_error(outcome, attempt, max_retries) ==
    outcome.kind = "Exception" /\ attempt < max_retries - 1

\* the except branch: TRUE when the loop continues with another attempt
retries(outcome, attempt, max_retries) ==
    /\ outcome.kind = "Exception"
    /\ message_contains(outcome.message, Locked)
    /\ attempt < max_retries - 1

\* the tables and the session of the loader
loader_db ==
    [images |-> image_table, types |-> caption_types, captions |-> image_captions,
     failed |-> loader.failed]

LoaderUnchanged ==
    UNCHANGED <<metadata_list, ret, galleries, gret, file_present, calls,
                session_vars, assoc_vars, default_dict>>

InitLoader ==
    /\ metadata_list = <<>>
    /\ ret = NoCall
    /\ galleries = NoGalleries
    /\ gret = NoCall
    /\ RestIdle

\* load_image_caption_with_retry is called, in a session of its own after a
\* call that raised; range(max_retries) is empty for max_retries = 0
StartLoad ==
    /\ loader.pc \in {"none", "returned", "raised"}
    /\ \/ loader.pc = "none"
       \/ loader.pc # "none" /\ loader.call < MaxLoads
    /\ \E max_retries \in 0..MaxRetries, caption_type \in TypeNames :
          loader' = [pc |-> IF max_retries = 0 THEN "returned" ELSE "attempt",
                     call |-> IF loader.pc = "none" THEN 1 ELSE loader.call + 1,
                     attempt |-> 0,
                     max_retries |-> max_retries,
                     caption_type |-> caption_type,
                     last |-> [kind |-> "none", message |-> <<>>],
                     failed |-> <<>>,
                     images_before |-> Len(image_table),
                     captions_before |-> Len(image_captions)]
    /\ UNCHANGED <<image_table, caption_types, image_captions>>
    /\ LoaderUnchanged

\* one pass of the for loop: the try block and its except branch
Attempt ==
    /\ loader.pc = "attempt"
    /\ \E fault_at \in {0} \cup Statements, fault \in Faults :
          LET outcome == attempt_body(loader_db, fault_at, fault, loader.caption_type)
              again == retries(outcome, loader.attempt, loader.max_retries)
          IN /\ image_table' = outcome.db.images
             /\ caption_types' = outcome.db.types
             /\ image_captions' = outcome.db.captions
             /\ loader' = [loader EXCEPT
                              !.pc = IF outcome.kind = "ok" THEN "returned"
                                     ELSE IF again THEN "attempt" ELSE "raised",
                              !.attempt = @ + 1,
                              !.last = [kind |-> outcome.kind,
                                        message |-> outcome.message],
                              !.failed = outcome.db.failed]
    /\ LoaderUnchanged

NextLoader == StartLoad \/ Attempt

SpecLoader == InitLoader /\ [][NextLoader]_vars

\* the loop is scheduled until it ends
SpecLoaderFair == SpecLoader /\ WF_vars(Attempt)

\* the step is one pass of the loop of load_image_caption_with_retry
AttemptStep == loader.pc = "attempt" /\ loader'.pc # "none" /\ loader' # loader

(***************************************************************************)
(* C27: load_image_caption_with_retry makes at most max_retries attempts   *)
(* and then ends.  It starts another attempt only after an exception whose *)
(* text contains "database is locked" and only while fewer than            *)
(* max_retries attempts have been made; every other exception, and the     *)
(* exception of the last attempt, propagates without another attempt; an   *)
(* attempt that succeeds returns at once.                                  *)
(***************************************************************************)
C27_BoundedRetry ==
    /\ [][AttemptStep =>
            /\ loader'.attempt = loader.attempt + 1
            /\ loader'.attempt <= loader.max_retries
            /\ loader'.pc = "attempt" =>
                  /\ loader'.last.kind = "Exception"
                  /\ message_contains(loader'.last.message, Locked)
                  /\ loader'.attempt < loader.max_retries
            /\ loader'.last.kind = "ok" => loader'.pc = "returned"
            /\ (\/ loader'.last.kind = "BaseException"
                \/ /\ loader'.last.kind = "Exception"
                   /\ ~message_contains(loader'.last.message, Locked)
                \/ /\ loader'.last.kind # "ok"
                   /\ loader'.attempt = loader.max_retries)
               => loader'.pc = "raised"]_vars
    /\ (loader.pc = "attempt") ~> (loader.pc \in {"returned", "raised"})

\* the last of MaxRetries attempts has met a locked database and its
\* exception has propagated
C27_Witness ==
    /\ loader.pc = "raised"
    /\ loader.max_retries = MaxRetries
    /\ loader.attempt = MaxRetries
    /\ message_contains(loader.last.message, Locked)

(***************************************************************************)
(* C28: when load_image_caption_with_retry returns its pair, the call has  *)
(* added one image record and one caption record, however many attempts    *)
(* it took.                                                                *)
(***************************************************************************)
C28_OneImageOneCaption ==
    (loader.pc = "returned" /\ loader.last.kind = "ok")
    => /\ Len(image_table) = loader.images_before + 1
       /\ Len(image_captions) = loader.captions_before + 1

(***************************************************************************)
(* load_json_caption (src/batch_load_caption.py).  A JSON document is a    *)
(* function from its keys to values; a value is a string, a nested         *)
(* document, or something else (a number, a list).  A caption dictionary   *)
(* is a function from joined keys to strings.  default_dict is the object  *)
(* the def statement made for `caption_dict: dict = {}`, which every call  *)
(* without a dictionary receives.  No two key paths of the documents here  *)
(* join to the same text, so the order of a document's keys is immaterial. *)
(***************************************************************************)
MaxDocuments == 2

Keys == {"a", "b"}
Strings == {"x"}

\* the values that are no documents
Leaves == [kind : {"str"}, value : Strings] \cup {[kind |-> "other"]}

\* the functions from a set of keys to the given values
documents_over(values) == UNION {[keys -> values] : keys \in SUBSET Keys}

FlatDocuments == documents_over(Leaves)

\* the documents loaded: nested at most once
Documents == documents_over(Leaves \cup [kind : {"dict"}, items : FlatDocuments])

\* caption_dict[key] = value
setitem(caption_dict, key, value) ==
    [k \in DOMAIN caption_dict \cup {key} |->
        IF k = key THEN value ELSE caption_dict[k]]

RECURSIVE load_items(_, _, _, _)
\* the for loop over the keys left
load_items(json_caption, keys, caption_dict, prefix) ==
    IF keys = {} THEN caption_dict
    ELSE LET key == CHOOSE k \in keys : TRUE
             value == json_caption[key]
             next == IF value.kind = "dict"
                     THEN load_items(value.items, DOMAIN value.items, caption_dict,
                                     prefix \o key \o "_")
                     ELSE IF value.kind = "str"
                     THEN setitem(caption_dict, prefix \o key, value.value)
                     ELSE caption_dict
         IN load_items(json_caption, keys \ {key}, next, prefix)

\* the dictionary object after the call, which is also what the call returns
load_json_caption(json_caption, caption_dict, prefix) ==
    load_items(json_caption, DOMAIN json_caption, caption_dict, prefix)

InitJson ==
    /\ metadata_list = <<>>
    /\ ret = NoCall
    /\ galleries = NoGalleries
    /\ gret = NoCall
    /\ RestIdle

\* load_json_caption(json_caption), as load_image_caption_from_dir calls it
LoadJsonCaption ==
    /\ IF sret.op = "none" THEN TRUE ELSE sret.call < MaxDocuments
    /\ \E json_caption \in Documents :
          LET caption_dict == load_json_caption(json_caption, default_dict, "")
          IN /\ default_dict' = caption_dict
             /\ sret' = [op |-> "load_json_caption",
                         call |-> IF sret.op = "none" THEN 1 ELSE sret.call + 1,
                         json_caption |-> json_caption,
                         result |-> caption_dict]
    /\ UNCHANGED <<metadata_list, ret, galleries, gret, image_table, file_present,
                   calls, session, soft_deleted, assoc_vars, caption_types,
                   image_captions, loader>>

NextJson == LoadJsonCaption

SpecJson == InitJson /\ [][NextJson]_vars

RECURSIVE string_leaves(_, _)
\* the pairs <<joined key path, string>> of the string leaves of a document
string_leaves(json_caption, prefix) ==
    UNION {IF json_caption[key].kind = "str"
           THEN {<<prefix \o key, json_caption[key].value>>}
           ELSE IF json_caption[key].kind = "dict"
           THEN string_leaves(json_caption[key].items, prefix \o key \o "_")
           ELSE {} : key \in DOMAIN json_caption}

\* the entries of a caption dictionary
Entries(caption_dict) == {<<key, caption_dict[key]>> : key \in DOMAIN caption_dict}

(***************************************************************************)
(* C29: the dictionary load_json_caption returns, called without a         *)
(* dictionary, holds exactly the string leaves of the document it was      *)
(* given, each under its underscore-joined key path, and no entry of a     *)
(* document of an earlier call.                                            *)
(***************************************************************************)
C29_OwnLeavesOnly ==
    sret.op = "load_json_caption"
    => Entries(sret.result) = string_leaves(sret.json_caption, "")

\* the first call of a run returns exactly the leaves of its document
C29_FirstCallExact ==
    (sret.op = "load_json_caption" /\ sret.call = 1)
    => Entries(sret.result) = string_leaves(sret.json_caption, "")

(***************************************************************************)
(* The reads of CaptionService: get_image_captions, get_primary_caption    *)
(* and search_captions (src/model/caption_service.py), next to add_caption *)
(* which fills the tables.  A content is a sequence of words, a keyword    *)
(* too; a read returns the ids of the captions it found.                   *)
(***************************************************************************)
MaxCaptions == 2
MaxCaptionImages == 2

Contents == {<<w>> : w \in Words} \cup {<<"cat", "dog">>}
Keywords == {<<w>> : w \in Words}

\* caption_type_name of a read: a name or None
TypeArguments == TypeNames \cup {NoneStr}

\* ImageCaption.content.contains(keyword)
content_contains(content, keyword) ==
    \E k \in 0..(Len(content) - Len(keyword)) :
        \A j \in 1..Len(keyword) : content[k + j] = keyword[j]

\* <<the caption types, the captions>> after add_caption
add_caption(types, captions, image_id, caption_type_name, content, is_primary) ==
    LET typed == get_or_create_caption_type(types, caption_type_name)
    IN <<typed[2], Append(captions, caption_row(image_id, typed[1], content, is_primary))>>

\* the ids of the rows of the query, in the order of the table
query_all(captions, matching) ==
    SelectSeq([k \in 1..Len(captions) |-> k], LAMBDA k : k \in matching)

\* `if caption_type_name:` and the filter on the type it gets or creates:
\* <<the rows left, the caption types>>
filter_caption_type(types, captions, matching, caption_type_name) ==
    IF caption_type_name = NoneStr
    THEN <<matching, types>>
    ELSE LET typed == get_or_create_caption_type(types, caption_type_name)
         IN <<{k \in matching : captions[k].caption_type_id = typed[1]}, typed[2]>>

\* <<the result, the caption types>>
get_image_captions(types, captions, image_id, caption_type_name) ==
    LET filtered == filter_caption_type(types, captions,
                        {k \in 1..Len(captions) : captions[k].image_id = image_id},
                        caption_type_name)
    IN <<query_all(captions, filtered[1]), filtered[2]>>

\* <<the result, 0 for None, the caption types>>
get_primary_caption(types, captions, image_id, caption_type_name) ==
    LET filtered == filter_caption_type(types, captions,
                        {k \in 1..Len(captions) :
                            captions[k].image_id = image_id /\ captions[k].is_primary},
                        caption_type_name)
        found == query_all(captions, filtered[1])
    IN <<IF found = <<>> THEN 0 ELSE found[1], filtered[2]>>

\* <<the result, the caption types>>
search_captions(types, captions, keyword, caption_type_name) ==
    LET filtered == filter_caption_type(types, captions,
                        {k \in 1..Len(captions) :
                            content_contains(captions[k].content, keyword)},
                        caption_type_name)
    IN <<query_all(captions, filtered[1]), filtered[2]>>

InitCaptions ==
    /\ metadata_list = <<>>
    /\ ret = NoCall
    /\ galleries = NoGalleries
    /\ gret = NoCall
    /\ RestIdle

CaptionsUnchanged ==
    UNCHANGED <<metadata_list, ret, galleries, gret, image_table, file_present, calls,
                session, soft_deleted, assoc_vars, loader, default_dict>>

AddCaption ==
    /\ Len(image_captions) < MaxCaptions
    /\ \E image_id \in 1..MaxCaptionImages, caption_type_name \in TypeNames,
          content \in Contents, is_primary \in BOOLEAN :
          LET r == add_caption(caption_types, image_captions, image_id,
                               caption_type_name, content, is_primary)
          IN /\ caption_types' = r[1]
             /\ image_captions' = r[2]
             /\ sret' = [op |-> "add_caption", caption_type_name |-> caption_type_name,
                         known |-> TRUE, result |-> <<Len(r[2])>>]
    /\ CaptionsUnchanged

GetImageCaptions ==
    /\ \E image_id \in 1..MaxCaptionImages, caption_type_name \in TypeArguments :
          LET r == get_image_captions(caption_types, image_captions, image_id,
                                      caption_type_name)
          IN /\ caption_types' = r[2]
             /\ sret' = [op |-> "get_image_captions",
                         caption_type_name |-> caption_type_name,
                         known |-> caption_type_named(caption_types, caption_type_name) # 0,
                         result |-> r[1]]
    /\ UNCHANGED image_captions
    /\ CaptionsUnchanged

GetPrimaryCaption ==
    /\ \E image_id \in 1..MaxCaptionImages, caption_type_name \in TypeArguments :
          LET r == get_primary_caption(caption_types, image_captions, image_id,
                                       caption_type_name)
          IN /\ caption_types' = r[2]
             /\ sret' = [op |-> "get_primary_caption",
                         caption_type_name |-> caption_type_name,
                         known |-> caption_type_named(caption_types, caption_type_name) # 0,
                         result |-> IF r[1] = 0 THEN <<>> ELSE <<r[1]>>]
    /\ UNCHANGED image_captions
    /\ CaptionsUnchanged

SearchCaptions ==
    /\ \E keyword \in Keywords, caption_type_name \in TypeArguments :
          LET r == search_captions(caption_types, image_captions, keyword,
                                   caption_type_name)
          IN /\ caption_types' = r[2]
             /\ sret' = [op |-> "search_captions",
                         caption_type_name |-> caption_type_name,
                         known |-> caption_type_named(caption_types, caption_type_name) # 0,
                         result |-> r[1]]
    /\ UNCHANGED image_captions
    /\ CaptionsUnchanged

NextCaptions == AddCaption \/ GetImageCaptions \/ GetPrimaryCaption \/ SearchCaptions

SpecCaptions == InitCaptions /\ [][NextCaptions]_vars

CaptionReads == {"get_image_captions", "get_primary_caption", "search_captions"}

(***************************************************************************)
(* C30: get_image_captions, get_primary_caption and search_captions, with  *)
(* or without a caption_type_name, leave the caption types and the         *)
(* captions as they were; a type name that does not exist gives an empty   *)
(* result and is not created.                                              *)
(***************************************************************************)
C30_ReadsChangeNothing ==
    [][sret'.op \in CaptionReads
          => /\ UNCHANGED <<caption_types, image_captions>>
             /\ (sret'.caption_type_name # NoneStr /\ ~sret'.known)
                => sret'.result = <<>>]_vars

\* the part of C30 about the results of the reads
C30_UnknownTypeIsEmpty ==
    (/\ sret.op \in CaptionReads
     /\ sret.caption_type_name # NoneStr
     /\ ~sret.known)
    => sret.result = <<>>

====
